---------------------------- MODULE Spec2Model ----------------------------
(***************************************************************************)
(* Model of the binning and cutting engine of MJOLNIR/Data/DataSet.py.     *)
(*                                                                         *)
(* Arithmetic.  The program works on floats; the model works on integers.  *)
(* Input coordinates, tolerances and widths are integers.  Every quantity  *)
(* the program obtains by halving (x - t/2, (a+b)/2, width/2) is stored    *)
(* doubled, so that it stays an integer and every comparison of the        *)
(* program is decided exactly: a bin edge e is stored as 2*e.  Bin         *)
(* centres, the mean of two edges, are stored four-fold.                   *)
(***************************************************************************)
EXTENDS Integers, Sequences, FiniteSets, TLC

VARIABLES
    pc,          \* "start" before the call, "done" after it
    op,          \* the operation that was called ("none" before the call)
    values,      \* binEdges: the array to be binned
    tolerance,   \* binEdges: the minimum bin size
    positions,   \* point cloud: sequence of <<qx, qy, energy>>
    I,           \* point cloud: intensity per point
    Norm,        \* point cloud: normalization per point
    Monitor,     \* point cloud: monitor per point
    QPoints,     \* waypoints; q1 = QPoints[1], q2 = QPoints[2] for single cuts
    width,       \* full width of the cut
    minPixel,    \* minimal bin size along the cut
    Emin,        \* cut1D: lower energy limit
    Emax,        \* cut1D: upper energy limit
    EnergyBins,  \* cutQE, cutQELine, cutPowder: energy bin edges
    extend,      \* cut1D, cutQE: extend the cut beyond q1, q2
    format,      \* cutQELine: format of QPoints, lower-cased
    steps,       \* binData3D: the step sizes <<dx, dy, dz>>
    centres,     \* calculateGrid3D: the bin centres <<x, y, z>> handed to meshgrid
    points,      \* voronoiTessellation: the groups <<X, Y>>, or one flat <<X, Y>>
    Boundary,    \* voronoiTessellation: the boundary polygons (<<>> for False)
    numGroups,   \* voronoiTessellation: the number of groups (0 for False)
    ret,         \* the value the call returned
    raised,      \* the error the call raised ("none" if it returned)
    message,     \* the lines of the error message
    segmentCuts, \* cutQELine: the segments <<q1, q2>> cut so far, in call order
    offset,      \* plotCutQELine: the offsets of the segments along the plot axis
    pmeshs,      \* plotCutQELine: the meshes plotted, [segID, x, Int]; x are bin edges
    calls,       \* the library routines called so far, in call order
    qPoint,      \* cut1DE: the array q, [shape, data]
    files,       \* plotA3A4: the data files
    centroids,   \* plotA3A4: the mean of the vertices of every polygon
    dataset,     \* the DataSet object: [dataFiles, convertedFiles]
    viewer       \* the Viewer3D object and its slider

vars == <<pc, op, values, tolerance, positions, I, Norm, Monitor, QPoints,
          width, minPixel, Emin, Emax, EnergyBins, extend, format, steps,
          centres, points, Boundary, numGroups, ret, raised, message,
          segmentCuts, offset, pmeshs, calls, qPoint, files, centroids,
          dataset, viewer>>

inputs == <<values, tolerance, positions, I, Norm, Monitor, QPoints,
            width, minPixel, Emin, Emax, EnergyBins, extend, format, steps,
            centres, points, Boundary, numGroups, files, centroids>>

\* the arguments and objects a call can change
mutable == <<qPoint, dataset, viewer>>

-----------------------------------------------------------------------------
(* Bounds of the model *)

\* longest array handed to binEdges
MaxLen == 3

\* largest number of points in a point cloud
MaxPts == 2

\* largest number of data files handed to plotA3A4
MaxFiles == 3

\* coordinates handed to binEdges
Coords == {0, 1, 2, 4, 5, 7}

\* the normalization of a masked pixel; weights that are numbers are not
\* negative
NaN == -1

\* tolerances handed to binEdges
Tolerances == {1, 2, 3}

\* the points of a cloud: <<qx, qy, energy>>
PointSet == (0..3) \X (0..1) \X (0..2)

\* the segments <<q1, q2>> of single cuts
Segments == { <<<<1, 0>>, <<3, 0>>>>, <<<<3, 0>>, <<1, 0>>>>, <<<<2, 0>>, <<2, 1>>>> }

\* the points of a cloud cut into energy slices
SlicePoints == {0, 2, 3} \X (0..1) \X (0..2)

\* the points of a cloud cut along a path
LinePoints == (1..3) \X (0..1) \X (0..1)

\* the waypoint lists of cutQELine: consecutive points differ and lie on a
\* line parallel to an axis
Paths == { <<>>,
           << <<1, 0>> >>,
           << <<1, 0>>, <<3, 0>> >>,
           << <<0, 0>>, <<4, 0>>, <<4, 2>> >>,
           << <<4, 0>>, <<0, 0>>, <<0, 2>> >> }

\* the formats of QPoints handed to cutQELine, lower-cased
Formats == {"qxqy", "rlu", "wrong"}

\* full widths of a cut
Widths == {1, 2, 3}

\* minimal bin sizes along a cut
MinPixels == {1, 2}

\* the energy bin edges of the sliced cuts
EnergyBinSets == { <<>>, <<0, 2>>, <<1, 2>>, <<0, 1, 2>> }

\* the points of a cloud with masked pixels
IntPoints == {1, 3} \X {0} \X {0, 1}

\* <<normalization, monitor>> of a pixel: good, masked, without
\* normalization, without monitor
PixelKinds == { <<3, 10>>, <<NaN, 10>>, <<0, 10>>, <<3, 0>> }

\* the arrays q of cut1DE: of the shape (2,) or (2,1)
QArrays ==
    [shape : { <<2>>, <<2, 1>> }, data : { <<1, 0>>, <<2, 1>> }]

\* energy windows <<Emin, Emax>> of a single cut
EnergyWindows == { <<0, 2>>, <<1, 1>>, <<3, 4>> }

\* the points of a cloud binned in three dimensions
GridPoints == {0, 1, 4} \X {0, 4} \X {0, 4}

\* the step sizes <<dx, dy, dz>> of binData3D
GridSteps == { <<2, 1, 1>>, <<2, 2, 4>> }

\* the coordinates of the bin centres handed to calculateGrid3D
CentreCoords == {0, 1, 3, 4}

\* the A3 and the A4 values of a raster
AxisArrays == { <<1>>, <<0, 1>>, <<1, 0>>, <<1, 1>>, <<0, 3>>, <<0, 1, 3>> }

\* the A3 and the A4 values of the raster of a second group
SecondAxisArrays == { <<0, 1>>, <<4, 5>> }

\* the points handed to voronoiTessellation together with a boundary
TessPoints == (1..3) \X (1..3)

\* the corners of the boundaries handed to voronoiTessellation, doubled: the
\* squares from <<0, 0>> to <<2, 2>> and from <<2, 0>> to <<4, 2>>
LeftSquare == { <<0, 0>>, <<4, 0>>, <<4, 4>>, <<0, 4>> }
RightSquare == { <<4, 0>>, <<8, 0>>, <<8, 4>>, <<4, 4>> }

\* the weights of the i-th point of a cloud: distinct powers of two, so that a
\* sum of weights names the set of points it was taken over
IOf(n) == [i \in 1..n |-> 2 ^ (i - 1)]
NormOf(n) == [i \in 1..n |-> 2 ^ i + 1]
MonitorOf(n) == [i \in 1..n |-> 10 * 2 ^ (i - 1)]

\* the attributes of a data file: Ei in hundredths, temperature and fields in
\* tenths, <<>> for None.  504 and 496 are both within 0.05 of 5.00, and 0.08
\* from each other
FileAttributes ==
    { [Ei |-> <<500>>, temperature |-> <<10>>, magneticField |-> <<0>>,
       electricField |-> <<0>>, binning |-> 8],
      [Ei |-> <<504>>, temperature |-> <<10>>, magneticField |-> <<0>>,
       electricField |-> <<0>>, binning |-> 8],
      [Ei |-> <<496>>, temperature |-> <<10>>, magneticField |-> <<0>>,
       electricField |-> <<0>>, binning |-> 8],
      [Ei |-> <<500>>, temperature |-> <<>>, magneticField |-> <<0>>,
       electricField |-> <<0>>, binning |-> 8],
      [Ei |-> <<500>>, temperature |-> <<13>>, magneticField |-> <<>>,
       electricField |-> <<0>>, binning |-> 8],
      [Ei |-> <<500>>, temperature |-> <<10>>, magneticField |-> <<0>>,
       electricField |-> <<5>>, binning |-> 1] }

\* the A3 values of a data file
A3Arrays == { <<0, 1>>, <<1, 2>>, <<6, 14>> }

\* the points of a matching
MatchPoints == (1..2) \X (1..2)

\* the centroids of polygons, four-fold
CentroidSet == {4, 6, 8} \X {4, 8}

-----------------------------------------------------------------------------
(* Helpers on sequences: numpy indexing, sums, sorting *)

Range(s) == {s[i] : i \in DOMAIN s}

\* sequences over S of length at most n
SeqUpTo(S, n) == UNION {[1..k -> S] : k \in 0..n}

RECURSIVE Sum(_)
Sum(s) == IF s = <<>> THEN 0 ELSE Head(s) + Sum(Tail(s))

\* a[mask], numpy boolean-mask indexing: the elements whose mask is TRUE, in order
RECURSIVE MaskSelect(_, _)
MaskSelect(a, mask) ==
    IF a = <<>> THEN <<>>
    ELSE (IF Head(mask) THEN <<Head(a)>> ELSE <<>>) \o MaskSelect(Tail(a), Tail(mask))

\* np.asarray(list(set(values))) followed by .sort(): the distinct values, ascending
RECURSIVE SortedUnique(_)
SortedUnique(S) ==
    IF S = {} THEN <<>>
    ELSE LET m == CHOOSE x \in S : \A y \in S : x <= y
         IN  <<m>> \o SortedUnique(S \ {m})

-----------------------------------------------------------------------------
(* _tools.binEdges                                                          *)
(* Sort the distinct positions and walk the gaps between consecutive       *)
(* positions.  The first edge is first - t/2.  The midpoint of a gap       *)
(* becomes an edge when the span accumulated since the last edge is at     *)
(* least t.  The final edge is last + t/2.  No positions: no edges.        *)
(* Edges are returned doubled.                                             *)

\* variant, not the program: the edge is put on the upper point of the gap, not on its midpoint
RECURSIVE walkGaps_onPoint(_, _, _, _)
walkGaps_onPoint(unique_values, i, bin_edges, t) ==
    IF i >= Len(unique_values) THEN bin_edges
    ELSE LET mid2 == 2 * unique_values[i+1]
         IN  IF mid2 - bin_edges[Len(bin_edges)] >= 2 * t
             THEN walkGaps_onPoint(unique_values, i + 1, Append(bin_edges, mid2), t)
             ELSE walkGaps_onPoint(unique_values, i + 1, bin_edges, t)

\* variant, not the program: the midpoint of every gap becomes an edge, whatever the tolerance
RECURSIVE walkGaps_everyGap(_, _, _, _)
walkGaps_everyGap(unique_values, i, bin_edges, t) ==
    IF i >= Len(unique_values) THEN bin_edges
    ELSE walkGaps_everyGap(unique_values, i + 1,
             Append(bin_edges, unique_values[i] + unique_values[i+1]), t)

RECURSIVE walkGaps(_, _, _, _)
walkGaps(unique_values, i, bin_edges, t) ==
    IF i >= Len(unique_values) THEN bin_edges
    ELSE LET mid2 == unique_values[i] + unique_values[i+1]
         IN  IF mid2 - bin_edges[Len(bin_edges)] >= 2 * t
             THEN walkGaps(unique_values, i + 1, Append(bin_edges, mid2), t)
             ELSE walkGaps(unique_values, i + 1, bin_edges, t)

\* variant, not the program: the outer edges are a whole tolerance away from the extreme points
binEdges_fullTolerance(vals, t) ==
    LET unique_values == SortedUnique(Range(vals))
    IN  IF Len(unique_values) = 0 THEN <<>>
        ELSE Append(walkGaps(unique_values, 1, <<2 * unique_values[1] - 2 * t>>, t),
                    2 * unique_values[Len(unique_values)] + 2 * t)

\* variant, not the program: the final edge is appended twice
binEdges_twiceLast(vals, t) ==
    LET unique_values == SortedUnique(Range(vals))
        last == 2 * unique_values[Len(unique_values)] + t
    IN  IF Len(unique_values) = 0 THEN <<>>
        ELSE Append(Append(walkGaps(unique_values, 1, <<2 * unique_values[1] - t>>, t),
                           last), last)

binEdges(vals, t) ==
    LET unique_values == SortedUnique(Range(vals))
    IN  IF Len(unique_values) = 0 THEN <<>>
        ELSE Append(walkGaps(unique_values, 1, <<2 * unique_values[1] - t>>, t),
                    2 * unique_values[Len(unique_values)] + t)

-----------------------------------------------------------------------------
(* numpy helpers used by the cuts *)

Dot(a, b) == a[1] * b[1] + a[2] * b[2]

\* np.linalg.norm of a 2D vector; the model's vectors have integer length
norm(v) == CHOOSE r \in 0..(Dot(v, v)) : r * r = Dot(v, v)

HasIntegerNorm(v) == \E r \in 0..(Dot(v, v)) : r * r = Dot(v, v)

\* bin number of sample x in the edges of one histogram axis (np.histogramdd,
\* np.histogram): np.searchsorted(edges, x, side='right'), and a sample equal
\* to the rightmost edge is shifted one bin to the left, into the last bin.
\* 0 and Len(edges) are the outlier bins.  x and edges are on the same scale.
binNumber(edges, x) ==
    LET Ncount == Cardinality({j \in DOMAIN edges : edges[j] <= x})
    IN  IF x = edges[Len(edges)] THEN Ncount - 1 ELSE Ncount

\* the sum of floats: NaN when a summand is NaN
fsum(s) == IF \E i \in DOMAIN s : s[i] = NaN THEN NaN ELSE Sum(s)

\* np.histogramdd(sample, bins=[lenbins, orthobins], weights=weights)[0] for one
\* orthogonal bin: per bin along the cut, the sum of the weights of the samples
\* that fall in it and in the orthogonal bin.  sample[i] = <<along, ortho>>,
\* edges doubled.
histogramdd(sample, lenbins, orthobins, weights) ==
    [k \in 1..(Len(lenbins) - 1) |->
        fsum(MaskSelect(weights,
            [i \in DOMAIN sample |->
                /\ binNumber(lenbins, 2 * sample[i][1]) = k
                /\ binNumber(orthobins, 2 * sample[i][2]) = 1]))]

\* variant, not the program: one count per edge
histogram_perEdge(a, bins, weights) ==
    [k \in 1..Len(bins) |->
        Sum(MaskSelect(weights, [i \in DOMAIN a |-> 2 * a[i] >= bins[k]]))]

\* np.histogram(a, bins=bins, weights=weights)[0]; no bins for fewer than 2 edges
histogram(a, bins, weights) ==
    [k \in 1..(Len(bins) - 1) |->
        Sum(MaskSelect(weights, [i \in DOMAIN a |-> binNumber(bins, 2 * a[i]) = k]))]

-----------------------------------------------------------------------------
(* cut1D *)

\* the four empty aggregate arrays of an empty cut
emptyData == << <<>>, <<>>, <<>>, <<>> >>

\* dirvec = (q2 - q1) / |q2 - q1|
dirvecOf(q1, q2) ==
    LET d == <<q2[1] - q1[1], q2[2] - q1[2]>>
    IN  <<d[1] \div norm(d), d[2] \div norm(d)>>

\* variant, not the program: the energy window is open, points at Emin or Emax are filtered out
insideEnergyOf_open(pos, emin, emax) ==
    [i \in DOMAIN pos |-> pos[i][3] < emax /\ pos[i][3] > emin]

\* insideEnergy = logical_and(positions[2] <= Emax, positions[2] >= Emin)
insideEnergyOf(pos, emin, emax) ==
    [i \in DOMAIN pos |-> pos[i][3] <= emax /\ pos[i][3] >= emin]

\* variant, not the program: the segment is closed, points at q1 or q2 are kept
insideQOf_closed(propos, dirLength) ==
    [i \in DOMAIN propos |-> propos[i][1] >= 0 /\ propos[i][1] <= dirLength]

\* insideQ = logical_and(propos[0] > 0, propos[0] < dirLength)
insideQOf(propos, dirLength) ==
    [i \in DOMAIN propos |-> propos[i][1] > 0 /\ propos[i][1] < dirLength]

\* variant, not the program: the width is closed, points at a distance of width/2 are kept
insideWidthOf_closed(propos, orthobins) ==
    [i \in DOMAIN propos |->
        2 * propos[i][2] <= orthobins[2] /\ 2 * propos[i][2] >= orthobins[1]]

\* insideWidth = logical_and(propos[1] < orthobins[1], propos[1] > orthobins[0]);
\* orthobins doubled
insideWidthOf(propos, orthobins) ==
    [i \in DOMAIN propos |->
        2 * propos[i][2] < orthobins[2] /\ 2 * propos[i][2] > orthobins[1]]

\* the weights handed to the histograms: W[insideEnergy][insideQ] when the cut
\* is not extended, W[insideEnergy] when it is
cutWeights(W, insideEnergy, insideQ, ext) ==
    IF ext = FALSE
    THEN MaskSelect(MaskSelect(W, insideEnergy), insideQ)
    ELSE MaskSelect(W, insideEnergy)

\* the histogram sample: every projected point that passed the energy filter
\* (and the q filter when the cut is not extended)
histogramSample(propos, insideWidth) == propos

\* cut1D(positions,I,Norm,Monitor,q1,q2,width,minPixel,Emin,Emax,extend):
\* returns <<Data list, Bin list>>; Data list = <<intensity, MonitorCount,
\* Normalization, normcounts>>, Bin list = <<binpositionsTotal, orthopos,
\* <<Emin, Emax>>>>.  Bin positions and orthopos are doubled.
cut1D(pos, Iw, Nw, Mw, q1, q2, w, minPix, emin, emax, ext) ==
    LET dirLength == norm(<<q2[1] - q1[1], q2[2] - q1[2]>>)
        dirvec == dirvecOf(q1, q2)
        orthovec == <<dirvec[2], -dirvec[1]>>
        insideEnergy == insideEnergyOf(pos, emin, emax)
    IN  IF \A i \in DOMAIN pos : ~insideEnergy[i]
        THEN <<emptyData, << <<>>, <<>>, <<emin, emax>> >> >>
        ELSE
        LET positions2D == MaskSelect([i \in DOMAIN pos |-> <<pos[i][1], pos[i][2]>>],
                                      insideEnergy)
            proposAll == [i \in DOMAIN positions2D |->
                <<Dot(dirvec,   <<positions2D[i][1] - q1[1], positions2D[i][2] - q1[2]>>),
                  Dot(orthovec, <<positions2D[i][1] - q1[1], positions2D[i][2] - q1[2]>>)>>]
            insideQ == insideQOf(proposAll, dirLength)
            propos == IF ext = FALSE THEN MaskSelect(proposAll, insideQ) ELSE proposAll
            orthobins == <<-w, w>>
            insideWidth == insideWidthOf(propos, orthobins)
            lenbins == binEdges([i \in DOMAIN MaskSelect(propos, insideWidth) |->
                                    MaskSelect(propos, insideWidth)[i][1]], minPix)
            orthopos == [j \in 1..2 |-> <<orthobins[j] * orthovec[1],
                                          orthobins[j] * orthovec[2]>>]
            binpositions == [k \in DOMAIN lenbins |->
                <<lenbins[k] * dirvec[1] + 2 * q1[1], lenbins[k] * dirvec[2] + 2 * q1[2]>>]
        IN  IF Len(lenbins) = 0
            THEN <<emptyData, << <<>>, orthopos, <<emin, emax>> >> >>
            ELSE
            LET sample == histogramSample(propos, insideWidth)
                normcounts == histogramdd(sample, lenbins, orthobins,
                                          [i \in DOMAIN propos |-> 1])
                intensity == histogramdd(sample, lenbins, orthobins,
                                         cutWeights(Iw, insideEnergy, insideQ, ext))
                MonitorCount == histogramdd(sample, lenbins, orthobins,
                                            cutWeights(Mw, insideEnergy, insideQ, ext))
                Normalization == histogramdd(sample, lenbins, orthobins,
                                             cutWeights(Nw, insideEnergy, insideQ, ext))
                binpositionsTotal == [k \in DOMAIN binpositions |->
                    <<binpositions[k][1], binpositions[k][2], emin + emax>>]
            IN  << <<intensity, MonitorCount, Normalization, normcounts>>,
                   <<binpositionsTotal, orthopos, <<emin, emax>>>> >>

-----------------------------------------------------------------------------
(* cutQE *)

\* variant, not the program: one centre per bin edge
centerPosOf_perEdge(position) ==
    [k \in 1..Len(position[1]) |->
        <<2 * position[1][k][1], 2 * position[1][k][2], 2 * position[1][k][3]>>]

\* centerPos of one slice: 0.5*(position[0][:-1] + position[0][1:]), four-fold
centerPosOf(position) ==
    [k \in 1..(Len(position[1]) - 1) |->
        <<position[1][k][1] + position[1][k+1][1],
          position[1][k][2] + position[1][k+1][2],
          position[1][k][3] + position[1][k+1][3]>>]

\* binDistance of one slice: np.linalg.norm(centerPos[:,:2] - q1, axis=1), four-fold
binDistanceOf(centerPos, q1) ==
    [k \in DOMAIN centerPos |->
        norm(<<centerPos[k][1] - 4 * q1[1], centerPos[k][2] - 4 * q1[2]>>)]

\* variant, not the program: no slice is skipped
keptSlices_all(cuts) == [i \in DOMAIN cuts |-> TRUE]

\* the slices whose cut is appended: those not skipped by
\* "if len(intensity)==0: continue"
keptSlices(cuts) == [i \in DOMAIN cuts |-> Len(cuts[i][1][1]) # 0]

\* the cuts of the slices that are appended, in the order of the slices
appendKept(cuts) == MaskSelect(cuts, keptSlices(cuts))

\* the lists cutQE returns, from the cuts <<Data list, Bin list>> it appended
cutQELists(kept, q1) ==
    << << [j \in DOMAIN kept |-> kept[j][1][1]],
          [j \in DOMAIN kept |-> kept[j][1][2]],
          [j \in DOMAIN kept |-> kept[j][1][3]],
          [j \in DOMAIN kept |-> kept[j][1][4]] >>,
       [j \in DOMAIN kept |-> kept[j][2]],
       [j \in DOMAIN kept |-> centerPosOf(kept[j][2])],
       [j \in DOMAIN kept |-> binDistanceOf(centerPosOf(kept[j][2]), q1)] >>

\* cutQE(positions,I,Norm,Monitor,q1,q2,width,minPix,EnergyBins,extend): one
\* cut1D per consecutive pair of energy edges, in order; returns
\* <<<<intensityArray, monitorArray, normalizationArray, normcountArray>>,
\*   returnpositions, centerPos, binDistance>>
cutQE(pos, Iw, Nw, Mw, q1, q2, w, minPix, EBins, ext) ==
    cutQELists(appendKept([i \in 1..(Len(EBins) - 1) |->
                   cut1D(pos, Iw, Nw, Mw, q1, q2, w, minPix, EBins[i], EBins[i+1], ext)]),
               q1)

-----------------------------------------------------------------------------
(* DataSet.cutQELine and DataSet.plotCutQELine *)

\* variant, not the program: a single Q point is let through
tooFewQPoints_one(QPts) == Len(QPts) < 1

\* the check of the number of Q points: len(QPoints) < 2
tooFewQPoints(QPts) == Len(QPts) < 2

\* the lists cutQELine returns, from the cutQE results of its segments
cutQELineLists(segs, QPts) ==
    [raised |-> "none", message |-> <<>>,
     ret |-> << [i \in DOMAIN segs |-> segs[i][1]],
                [i \in DOMAIN segs |-> segs[i][2]],
                [i \in DOMAIN segs |-> segs[i][3]],
                [i \in DOMAIN segs |-> segs[i][4]] >>,
     cuts |-> [i \in DOMAIN segs |-> <<QPts[i], QPts[i+1]>>]]

\* DataSet.cutQELine(QPoints,EnergyBins,width,minPixel,format) on the data of
\* the data set: [raised, ret, cuts], cuts being the segments handed to cutQE
\* before the method returned or raised.  The Q points of the model have two
\* coordinates, so format 'rlu'/'hkl' fails the check of their dimension.
cutQELine(pos, Iw, Nw, Mw, QPts, EBins, w, minPix, fmt) ==
    IF tooFewQPoints(QPts)
    THEN [raised |-> "AttributeError: Number of Q points given is less than 2.",
          message |-> <<>>, ret |-> <<>>, cuts |-> <<>>]
    ELSE IF fmt \in {"rlu", "hkl"}
    THEN [raised |-> "AttributeError: Provide Q list is not 3 dimensional",
          message |-> <<>>, ret |-> <<>>, cuts |-> <<>>]
    ELSE IF fmt # "qxqy"
    THEN [raised |-> "AttributeError: Given Q mode not understood",
          message |-> <<>>, ret |-> <<>>, cuts |-> <<>>]
    ELSE cutQELineLists([i \in 1..(Len(QPts) - 1) |->
             cutQE(pos, Iw, Nw, Mw, QPts[i], QPts[i+1], w, minPix, EBins, FALSE)], QPts)

\* DataSet.plotCutQELine up to the check for empty cuts: the cut itself, whose
\* errors propagate, then one combined error listing, for every segment whose
\* result is empty, <<QPoints[idx], QPoints[idx+1], EnergyBins[0], EnergyBins[-1]>>
\* variant, not the program: only the first empty segment is reported
emptyIndexOf_first(binDistanceTotal) ==
    IF \E i \in DOMAIN binDistanceTotal : Len(binDistanceTotal[i]) = 0
    THEN <<CHOOSE i \in DOMAIN binDistanceTotal :
               /\ Len(binDistanceTotal[i]) = 0
               /\ \A m \in 1..(i - 1) : Len(binDistanceTotal[m]) # 0>>
    ELSE <<>>

emptyIndexOf(binDistanceTotal) ==
    MaskSelect([i \in DOMAIN binDistanceTotal |-> i],
               [i \in DOMAIN binDistanceTotal |-> Len(binDistanceTotal[i]) = 0])

\* np.argmin: the index of the first smallest element
argmin(a) ==
    CHOOSE i \in DOMAIN a :
        /\ \A j \in DOMAIN a : a[i] <= a[j]
        /\ \A j \in 1..(i - 1) : a[j] > a[i]

\* the largest element of a list of lists: np.max([np.max(b) for b in lists])
maxOfLists(lists) ==
    CHOOSE x \in UNION {Range(lists[i]) : i \in DOMAIN lists} :
        \A i \in DOMAIN lists : \A k \in DOMAIN lists[i] : lists[i][k] <= x

\* binedges of one segment: per slice, the distance of every bin position from
\* the first bin position of the slice that starts furthest left along q2 - q1;
\* doubled, as the bin positions are
binedgesOf(BinList, q1, q2) ==
    LET dirvec == <<q2[1] - q1[1], q2[2] - q1[2]>>
        leftEdgeBins == [i \in DOMAIN BinList |-> Dot(BinList[i][1][1], dirvec)]
        leftEdge == BinList[argmin(leftEdgeBins)][1][1]
    IN  [i \in DOMAIN BinList |->
            [k \in DOMAIN BinList[i][1] |->
                norm(<<BinList[i][1][k][1] - leftEdge[1], BinList[i][1][k][2] - leftEdge[2]>>)]]

\* variant, not the program: the meshes are not shifted by the offset
meshX_noOffset(binedges, last) == binedges

\* the first argument of pcolormesh for one slice: binedges[i] + offset[-1]
meshX(binedges, last) == [k \in DOMAIN binedges |-> binedges[k] + last]

\* the meshes of one segment and the offset appended after it
plotSegment(segID, binedges, last) ==
    [meshes |-> [i \in DOMAIN binedges |-> [segID |-> segID, x |-> meshX(binedges[i], last)]],
     next |-> last + maxOfLists(binedges)]

\* the loop over the segments: offset = [0.0], then per segment its meshes at
\* offset[-1] and offset.append(offset[-1] + max of its binedges)
RECURSIVE plotSegments(_, _, _, _, _)
plotSegmentsNext(segID, BinListTotal, QPts, offs, meshes, seg) ==
    plotSegments(segID + 1, BinListTotal, QPts, Append(offs, seg.next), meshes \o seg.meshes)

plotSegments(segID, BinListTotal, QPts, offs, meshes) ==
    IF segID > Len(BinListTotal) THEN [offset |-> offs, pmeshs |-> meshes]
    ELSE plotSegmentsNext(segID, BinListTotal, QPts, offs, meshes,
             plotSegment(segID, binedgesOf(BinListTotal[segID], QPts[segID], QPts[segID+1]),
                         offs[Len(offs)]))

\* variant, not the program: a division by zero or by NaN gives zero
divide_clamped(a, b) ==
    IF a = NaN \/ b = NaN \/ b = 0
    THEN [kind |-> "finite", num |-> 0, den |-> 1]
    ELSE [kind |-> "finite", num |-> a, den |-> b]

\* np.divide(a, b) of two floats, neither negative, with the warnings
\* ignored: NaN when a or b is NaN or both are zero, infinity when only b is
\* zero, else the quotient num/den
divide(a, b) ==
    IF a = NaN \/ b = NaN \/ (a = 0 /\ b = 0)
    THEN [kind |-> "nan", num |-> 0, den |-> 0]
    ELSE IF b = 0
    THEN [kind |-> "inf", num |-> 0, den |-> 0]
    ELSE [kind |-> "finite", num |-> a, den |-> b]

\* the product of two floats
times(a, b) == IF a = NaN \/ b = NaN THEN NaN ELSE a * b

\* Int of the slices of one segment:
\* np.divide(intensityArray[i]*normcountArray[i],
\*           monitorArray[i]*normalizationArray[i])
IntOf(Data) ==
    [i \in DOMAIN Data[1] |->
        [k \in DOMAIN Data[1][i] |->
            divide(times(Data[1][i][k], Data[4][i][k]),
                   times(Data[2][i][k], Data[3][i][k]))]]

\* Int of all slices of all segments, in the order they are plotted
RECURSIVE IntTotalOf(_)
IntTotalOf(DataList) ==
    IF DataList = <<>> THEN <<>>
    ELSE IntTotalOf(SubSeq(DataList, 1, Len(DataList) - 1))
         \o IntOf(DataList[Len(DataList)])

\* ax.pcolormesh(binedges[i]+offset[-1],binenergies[i],Int[i].T): every mesh
\* with the intensities it shows
withInt(axis, IntTotal) ==
    [offset |-> axis.offset,
     pmeshs |-> [m \in DOMAIN axis.pmeshs |->
                    [segID |-> axis.pmeshs[m].segID, x |-> axis.pmeshs[m].x,
                     Int |-> IntTotal[m]]]]

plotted(line, axis) ==
    [raised |-> line.raised, message |-> line.message, ret |-> line.ret,
     cuts |-> line.cuts, offset |-> axis.offset, pmeshs |-> axis.pmeshs]

nothingPlotted == [offset |-> <<>>, pmeshs |-> <<>>]

plotAfterCut(line, emptyIndex, QPts, EBins) ==
    IF line.raised # "none" THEN plotted(line, nothingPlotted)
    ELSE IF Len(emptyIndex) # 0
    THEN [raised |-> "AttributeError: No data points found",
          message |-> [k \in DOMAIN emptyIndex |->
                          <<QPts[emptyIndex[k]], QPts[emptyIndex[k] + 1],
                            EBins[1], EBins[Len(EBins)]>>],
          ret |-> <<>>, cuts |-> line.cuts, offset |-> <<>>, pmeshs |-> <<>>]
    ELSE plotted(line, withInt(plotSegments(1, line.ret[2], QPts, <<0>>, <<>>),
                               IntTotalOf(line.ret[1])))

plotCheckEmpty(line, QPts, EBins) ==
    plotAfterCut(line,
                 IF line.raised # "none" THEN <<>> ELSE emptyIndexOf(line.ret[4]),
                 QPts, EBins)

plotCutQELine(pos, Iw, Nw, Mw, QPts, EBins, w, minPix, fmt) ==
    plotCheckEmpty(cutQELine(pos, Iw, Nw, Mw, QPts, EBins, w, minPix, fmt), QPts, EBins)

-----------------------------------------------------------------------------
(* cutPowder *)

\* e_inside = logical_and(energy > EBinEdges[i], energy <= EBinEdges[i+1])
e_insideOf(pos, EBinEdges, i) ==
    [j \in DOMAIN pos |-> pos[j][3] > EBinEdges[i] /\ pos[j][3] <= EBinEdges[i+1]]

\* cutPowder(positions,I,Norm,Monitor,EBinEdges,qMinBin): returns
\* <<<<intensity, monitorCount, Normalization, NormCount>>, qbins>>, one entry
\* per energy slice in each list; qbins doubled
cutPowder(pos, Iw, Nw, Mw, EBinEdges, qMinBin) ==
    LET q == [j \in DOMAIN pos |-> norm(<<pos[j][1], pos[j][2]>>)]
        slices == 1..(Len(EBinEdges) - 1)
        q_inside(i) == MaskSelect(q, e_insideOf(pos, EBinEdges, i))
        qbins == [i \in slices |-> binEdges(q_inside(i), qMinBin)]
        hist(W, i) == histogram(q_inside(i), qbins[i],
                                MaskSelect(W, e_insideOf(pos, EBinEdges, i)))
    IN  << << [i \in slices |-> hist(Iw, i)],
              [i \in slices |-> hist(Mw, i)],
              [i \in slices |-> hist(Nw, i)],
              [i \in slices |-> hist([j \in DOMAIN pos |-> 1], i)] >>,
           qbins >>

-----------------------------------------------------------------------------
(* cut1DE.  The array q is [shape, data]; data = <<qx, qy>>. *)

\* if len(q.shape)==1: q.shape = (2,1): the array handed in as q is reshaped
\* in place, the caller's array is the one that changes
reshaped(q_) ==
    IF Len(q_.shape) = 1 THEN [q_ EXCEPT !.shape = <<2, 1>>] ELSE q_

\* cut1DE(positions,I,Norm,Monitor,E1,E2,q,width,minPixel): [raised, message,
\* ret, q]; ret = <<Data list, Bin list>> with Data list = <<intensity,
\* MonitorCount, Normalization, normcounts>> and Bin list = <<bins>>, the
\* energy edges doubled; q is the array q after the call
cut1DE(pos, Iw, Nw, Mw, E1, E2, q_, w, minPix) ==
    LET inside == [i \in DOMAIN pos |->
                      Dot(<<pos[i][1] - q_.data[1], pos[i][2] - q_.data[2]>>,
                          <<pos[i][1] - q_.data[1], pos[i][2] - q_.data[2]>>) < w * w]
        insideEnergy == [i \in DOMAIN pos |-> pos[i][3] <= E2 /\ pos[i][3] >= E1]
        allInside == [i \in DOMAIN pos |-> inside[i] /\ insideEnergy[i]]
        Energies == MaskSelect([i \in DOMAIN pos |-> pos[i][3]], allInside)
        bins == binEdges(Energies, minPix)
        hist(W) == histogram(Energies, bins, MaskSelect(W, allInside))
    IN  IF \A i \in DOMAIN pos : ~insideEnergy[i]
        THEN [raised |-> "AttributeError",
              message |-> <<"No points are within the provided energy limits.">>,
              ret |-> <<>>, q |-> reshaped(q_)]
        ELSE IF \A i \in DOMAIN pos : ~inside[i]
        THEN [raised |-> "AttributeError",
              message |-> <<"No points are inside selected q range.">>,
              ret |-> <<>>, q |-> reshaped(q_)]
        ELSE IF bins = <<>>
        THEN [raised |-> "none", message |-> <<>>,
              ret |-> <<emptyData, << <<E1, E2>> >> >>, q |-> reshaped(q_)]
        ELSE [raised |-> "none", message |-> <<>>,
              ret |-> << <<hist(Iw), hist(Mw), hist(Nw),
                           hist([i \in DOMAIN pos |-> 1])>>, <<bins>> >>,
              q |-> reshaped(q_)]

-----------------------------------------------------------------------------
(* binData3D, calculateBins, calculateGrid3D.  An array of three dimensions *)
(* is a record [shape, at]: at[<<i, j, k>>] is the element, one-based.      *)
(* calculateGrid3D halves differences and divides by three: the edges it     *)
(* returns are stored twelve-fold.                                           *)

\* the indices of an array of the shape sh
Box(sh) == (1..sh[1]) \X (1..sh[2]) \X (1..sh[3])

\* np.meshgrid(x, y, z, indexing='ij')
meshgrid(x, y, z) ==
    << [shape |-> <<Len(x), Len(y), Len(z)>>,
        at |-> [t \in Box(<<Len(x), Len(y), Len(z)>>) |-> x[t[1]]]],
       [shape |-> <<Len(x), Len(y), Len(z)>>,
        at |-> [t \in Box(<<Len(x), Len(y), Len(z)>>) |-> y[t[2]]]],
       [shape |-> <<Len(x), Len(y), Len(z)>>,
        at |-> [t \in Box(<<Len(x), Len(y), Len(z)>>) |-> z[t[3]]]] >>

\* the index t moved by k along axis a
moved(t, a, k) ==
    << IF a = 1 THEN t[1] + k ELSE t[1],
       IF a = 2 THEN t[2] + k ELSE t[2],
       IF a = 3 THEN t[3] + k ELSE t[3] >>

\* np.diff(A, axis=a-1): one element less along the axis
diff(A, a) ==
    [shape |-> moved(A.shape, a, -1),
     at |-> [t \in Box(moved(A.shape, a, -1)) |-> A.at[moved(t, a, 1)] - A.at[t]]]

\* the index into the differences along axis a that serves the element t:
\* XX[:-1] takes dx0, XX[-1] takes dx0[-1]
diffIndex(t, sh, a) == IF t[a] >= sh[a] THEN moved(t, a, sh[a] - 1 - t[a]) ELSE t

\* XX = X.copy(); XX[:-1]-=0.5*dx0; XX[-1]-=0.5*dx0[-1]; and the same along
\* the two other axes.  Twelve-fold.
XXOf(X, dx0, dx1, dx2) ==
    [t \in Box(X.shape) |->
        12 * X.at[t] - 6 * (dx0.at[diffIndex(t, X.shape, 1)]
                            + dx1.at[diffIndex(t, X.shape, 2)]
                            + dx2.at[diffIndex(t, X.shape, 3)])]

\* XT: XT[:-1,:-1,:-1] = XX; an element in the last plane of one axis is its
\* neighbour in the plane before plus the last difference along that axis; an
\* element in the last plane of two or three axes is the mean of what these
\* axes give.  Twelve-fold.
XTOf(sh, XX, dx) ==
    LET lastOf(t) == {a \in 1..3 : t[a] = sh[a] + 1}
        inner(t) == << IF t[1] > sh[1] THEN sh[1] ELSE t[1],
                       IF t[2] > sh[2] THEN sh[2] ELSE t[2],
                       IF t[3] > sh[3] THEN sh[3] ELSE t[3] >>
        XT[t \in Box(<<sh[1] + 1, sh[2] + 1, sh[3] + 1>>)] ==
            LET from(a) == IF a \in lastOf(t)
                           THEN XT[moved(t, a, -1)]
                                + 12 * dx[a].at[diffIndex(inner(t), sh, a)]
                           ELSE 0
            IN  IF lastOf(t) = {}
                THEN XX[t]
                ELSE (from(1) + from(2) + from(3)) \div Cardinality(lastOf(t))
    IN  [shape |-> <<sh[1] + 1, sh[2] + 1, sh[3] + 1>>, at |-> XT]

\* the edges of one coordinate array
gridOf(X, dx0, dx1, dx2) ==
    XTOf(X.shape, XXOf(X, dx0, dx1, dx2), <<dx0, dx1, dx2>>)

\* calculateGrid3D(X,Y,Z): returns <<XT, YT, ZT>>, twelve-fold.  With one
\* element along an axis the differences along it are empty and dx0[-1]
\* raises IndexError.
calculateGrid3D(X, Y, Z) ==
    IF \E a \in 1..3 : X.shape[a] = 1
    THEN [raised |-> "IndexError", ret |-> <<>>]
    ELSE [raised |-> "none",
          ret |-> << gridOf(X, diff(X, 1), diff(X, 2), diff(X, 3)),
                     gridOf(Y, diff(Y, 1), diff(Y, 2), diff(Y, 3)),
                     gridOf(Z, diff(Z, 1), diff(Z, 2), diff(Z, 3)) >>]

\* variant, not the program: the quotient is cut off, not rounded
roundDiv_floor(a, b) == a \div b

\* np.round(a / b) for a >= 0, b > 0: the nearest integer, a tie goes to the
\* even one
roundDiv(a, b) ==
    IF 2 * (a % b) < b THEN a \div b
    ELSE IF 2 * (a % b) > b THEN a \div b + 1
    ELSE IF (a \div b) % 2 = 0 THEN a \div b ELSE a \div b + 1

\* np.linspace(lo, hi, num), num >= 1; every value multiplied by scaleOf(num)
linspace(lo, hi, num) ==
    [i \in 1..num |-> IF num = 1 THEN lo ELSE lo * (num - 1) + (i - 1) * (hi - lo)]

\* the factor on the values of linspace(lo, hi, num)
scaleOf(num) == IF num = 1 THEN 1 ELSE num - 1

\* column a of pos
columnOf(pos, a) == {pos[i][a] : i \in DOMAIN pos}

\* np.max(x), np.min(x)
npmax(S) == CHOOSE x \in S : \A y \in S : x >= y
npmin(S) == CHOOSE x \in S : \A y \in S : x <= y

\* xbins = np.round(diffx/dx).astype(int)+1, and ybins, zbins
binCounts(d, pos) ==
    << roundDiv(npmax(columnOf(pos, 1)) - npmin(columnOf(pos, 1)), d[1]) + 1,
       roundDiv(npmax(columnOf(pos, 2)) - npmin(columnOf(pos, 2)), d[2]) + 1,
       roundDiv(npmax(columnOf(pos, 3)) - npmin(columnOf(pos, 3)), d[3]) + 1 >>

\* _X, _Y, _Z = np.linspace(np.min(pos[a]), np.max(pos[a]), bins[a])
binCentres(pos, nbins) ==
    [a \in 1..3 |-> linspace(npmin(columnOf(pos, a)), npmax(columnOf(pos, a)), nbins[a])]

\* the grid of the centres c = <<_X, _Y, _Z>>
gridOfCentres(c) ==
    calculateGrid3D(meshgrid(c[1], c[2], c[3])[1], meshgrid(c[1], c[2], c[3])[2],
                    meshgrid(c[1], c[2], c[3])[3])

\* calculateBins(dx,dy,dz,pos): the maximum of an empty cloud raises
\* ValueError
calculateBins(d, pos) ==
    IF pos = <<>>
    THEN [raised |-> "ValueError", ret |-> <<>>]
    ELSE gridOfCentres(binCentres(pos, binCounts(d, pos)))

\* HistBins = [bins[0][:,0,0], bins[1][0,:,0], bins[2][0,0,:]]
HistBinsOf(bins) ==
    << [i \in 1..bins[1].shape[1] |-> bins[1].at[<<i, 1, 1>>]],
       [j \in 1..bins[2].shape[2] |-> bins[2].at[<<1, j, 1>>]],
       [k \in 1..bins[3].shape[3] |-> bins[3].at[<<1, 1, k>>]] >>

\* the bin numbers <<i, j, k>> of every sample along the three axes; sample
\* and HistBins on the same scale
RECURSIVE binNumbers(_, _)
binNumbers(sample, HistBins) ==
    IF sample = <<>>
    THEN <<>>
    ELSE << << binNumber(HistBins[1], Head(sample)[1]),
               binNumber(HistBins[2], Head(sample)[2]),
               binNumber(HistBins[3], Head(sample)[3]) >> >>
         \o binNumbers(Tail(sample), HistBins)

\* np.histogramdd(sample, bins=HistBins, weights=weights)[0] in three
\* dimensions: per bin the sum of the weights of the samples whose bin numbers
\* Ncount name it; nbin is the number of bins per axis
histogramdd3(Ncount, nbin, weights) ==
    [shape |-> nbin,
     at |-> [t \in Box(nbin) |->
                Sum(MaskSelect(weights, [i \in DOMAIN Ncount |-> Ncount[i] = t]))]]

\* the positions on the scale of the edges of nbins bins per axis
sampleOf(pos, nbins) ==
    [i \in DOMAIN pos |-> << 12 * scaleOf(nbins[1]) * pos[i][1],
                             12 * scaleOf(nbins[2]) * pos[i][2],
                             12 * scaleOf(nbins[3]) * pos[i][3] >>]

\* returndata = [intensity, MonitorCount, Normalization, NormCount]
returndataOf(Ncount, nbin, data, nrm, mon) ==
    << histogramdd3(Ncount, nbin, data),
       histogramdd3(Ncount, nbin, mon),
       histogramdd3(Ncount, nbin, nrm),
       histogramdd3(Ncount, nbin, [i \in DOMAIN data |-> 1]) >>

\* the number of bins of HistBins per axis
nbinOf(HistBins) ==
    <<Len(HistBins[1]) - 1, Len(HistBins[2]) - 1, Len(HistBins[3]) - 1>>

\* the part of binData3D after calculateBins
binInto(bins, sample, data, nrm, mon) ==
    IF bins.raised # "none"
    THEN [raised |-> bins.raised, ret |-> <<>>]
    ELSE [raised |-> "none",
          ret |-> <<returndataOf(binNumbers(sample, HistBinsOf(bins.ret)),
                                 nbinOf(HistBinsOf(bins.ret)), data, nrm, mon),
                    bins.ret>>]

\* binData3D(dx,dy,dz,pos,data,norm=norm,mon=mon): returns <<returndata, bins>>;
\* the edges of axis a are multiplied by 12 * scaleOf(number of bins of a)
binData3D(d, pos, data, nrm, mon) ==
    binInto(calculateBins(d, pos),
            IF pos = <<>> THEN <<>> ELSE sampleOf(pos, binCounts(d, pos)),
            data, nrm, mon)

-----------------------------------------------------------------------------
(* convexHullPoints and voronoiTessellation.  The coordinates of a polygon  *)
(* are doubled, since convexHullPoints halves the spacing of the raster.    *)
(* A shapely polygon is the set of the unit cells <<i, j>> it covers on the *)
(* doubled grid, the cell being the square from <<i, j>> to <<i+1, j+1>>;   *)
(* this is exact for the polygons used here, whose sides are parallel to    *)
(* the axes and whose corners are on the grid.                              *)

\* the cross product (b - a) x (p - a): positive when p is left of a -> b
cross(a, b, p) ==
    (b[1] - a[1]) * (p[2] - a[2]) - (b[2] - a[2]) * (p[1] - a[1])

\* the pairs <<a, b>> of P with all of P left of or on the line a -> b
hullEdges(P) ==
    {e \in P \X P : e[1] # e[2] /\ \A p \in P : cross(e[1], e[2], p) >= 0}

\* hullPoints.points[hullPoints.vertices] of ConvexHull(P): the points where
\* the boundary of the hull turns; E are the hull edges of P
hullVertices(P, E) ==
    {p \in P : \E a \in P : \E b \in P :
        <<a, p>> \in E /\ <<p, b>> \in E /\ cross(a, p, b) > 0}

\* the cells between the smallest and largest coordinates of V whose centre
\* is strictly inside the convex polygon with the edges E
cellsInside(V, E) ==
    {c \in (npmin({v[1] : v \in V})..(npmax({v[1] : v \in V}) - 1))
           \X (npmin({v[2] : v \in V})..(npmax({v[2] : v \in V}) - 1)) :
        \A e \in E :
            cross(<<2 * e[1][1], 2 * e[1][2]>>, <<2 * e[2][1], 2 * e[2][2]>>,
                  <<2 * c[1] + 1, 2 * c[2] + 1>>) > 0}

\* PolygonS(V) of the vertices V of a convex polygon
PolygonS(V) == cellsInside(V, hullEdges(V))

\* polygon.contains(PointS(p)): p is in the interior of the polygon, a point
\* on its boundary is not contained; p doubled
contains(polygon, p) ==
    { <<p[1] - 1, p[2] - 1>>, <<p[1], p[2] - 1>>,
      <<p[1] - 1, p[2]>>, <<p[1], p[2]>> } \subseteq polygon

\* np.unique(a)
unique(a) == SortedUnique(Range(a))

\* variant, not the program: the boundary is not moved outwards
stepOf_none(u) == <<0, 0>>

\* A3Step = np.diff(A3Unique)[[0,-1]]*0.5, doubled
stepOf(u) == <<u[2] - u[1], u[Len(u)] - u[Len(u) - 1]>>

\* boundary = np.concatenate([addLeft,addRight,addBottom,addTop,corners]):
\* the strips left, right, below and above the raster and the four corners;
\* doubled
boundaryOf(A3Unique, A4Unique, A3Step, A4Step) ==
    LET left == 2 * A3Unique[1] - A3Step[1]
        right == 2 * A3Unique[Len(A3Unique)] + A3Step[2]
        bottom == 2 * A4Unique[1] - A4Step[1]
        top == 2 * A4Unique[Len(A4Unique)] + A4Step[2]
    IN  {<<left, 2 * A4Unique[j]>> : j \in DOMAIN A4Unique}
        \cup {<<right, 2 * A4Unique[j]>> : j \in DOMAIN A4Unique}
        \cup {<<2 * A3Unique[i], bottom>> : i \in DOMAIN A3Unique}
        \cup {<<2 * A3Unique[i], top>> : i \in DOMAIN A3Unique}
        \cup {<<left, bottom>>, <<left, top>>, <<right, bottom>>, <<right, top>>}

\* PolygonS(bound.T) of the convex hull of the boundary points
hullPolygon(boundary) == PolygonS(hullVertices(boundary, hullEdges(boundary)))

\* the part of convexHullPoints after np.unique: with fewer than two distinct
\* values on an axis np.diff is empty and [[0,-1]] raises IndexError
hullOfUnique(A3Unique, A4Unique) ==
    IF Len(A3Unique) < 2 \/ Len(A4Unique) < 2
    THEN [raised |-> "IndexError", ret |-> <<>>]
    ELSE [raised |-> "none",
          ret |-> hullPolygon(boundaryOf(A3Unique, A4Unique,
                                         stepOf(A3Unique), stepOf(A4Unique)))]

\* convexHullPoints(A3,A4)
convexHullPoints(A3, A4) == hullOfUnique(unique(A3), unique(A4))

\* X,Y = [x.flatten() for x in np.meshgrid(A3,A4,indexing='ij')]: the points
\* of the raster of the values A3 and A4, as <<X, Y>>
rasterOf(A3, A4) ==
    << [k \in 1..(Len(A3) * Len(A4)) |-> A3[((k - 1) \div Len(A4)) + 1]],
       [k \in 1..(Len(A3) * Len(A4)) |-> A4[((k - 1) % Len(A4)) + 1]] >>

\* np.concatenate([points[i][c].flatten() for i in range(numGroups)])
RECURSIVE concatenate(_, _, _)
concatenate(points_, c, numGroups_) ==
    IF numGroups_ = 0
    THEN <<>>
    ELSE concatenate(points_, c, numGroups_ - 1) \o points_[numGroups_][c]

\* the points <<x, y>> of pointsX, pointsY without repetition, in the order of
\* their first occurrence
RECURSIVE sitesOf(_, _)
sitesOf(pointsX, pointsY) ==
    IF pointsX = <<>>
    THEN <<>>
    ELSE LET n == Len(pointsX)
             before == sitesOf(SubSeq(pointsX, 1, n - 1), SubSeq(pointsY, 1, n - 1))
         IN  IF <<pointsX[n], pointsY[n]>> \in Range(before)
             THEN before
             ELSE Append(before, <<pointsX[n], pointsY[n]>>)

\* the orders in which Voronoi may list the regions
RegionOrders == {"forward", "backward"}

\* regions[boolval] of Voronoi(AllPoints.T), each named by its site: the
\* diagram has one region per distinct site; the regions of the eight extra
\* points, which lie on the hull of all sites, reach infinity and are
\* discarded, the regions of the given points are bounded
regionsOf(sites, order) ==
    IF order = "forward" THEN sites
    ELSE [i \in DOMAIN sites |-> sites[Len(sites) + 1 - i]]

\* the Voronoi region of site as far as combiPoly reaches: the cells of
\* combiPoly whose centre is nearer to site than to any other of sites.  The
\* centre of the cell <<i, j>> is <<2i+1, 2j+1>> four-fold.  This is exact
\* where the regions meet along grid lines, as they do for the points of a
\* raster; a cell cut by a slanted border goes to the site of its centre.
\* The eight extra points are farther from every cell than the nearest site.
regionCells(site, sites, combiPoly) ==
    {c \in combiPoly : \A t \in sites \ {site} :
        (2 * c[1] + 1 - 4 * site[1]) * (2 * c[1] + 1 - 4 * site[1])
        + (2 * c[2] + 1 - 4 * site[2]) * (2 * c[2] + 1 - 4 * site[2])
        < (2 * c[1] + 1 - 4 * t[1]) * (2 * c[1] + 1 - 4 * t[1])
          + (2 * c[2] + 1 - 4 * t[2]) * (2 * c[2] + 1 - 4 * t[2])}

\* the piece of cells that part belongs to: the cells joined to part along
\* cell sides
RECURSIVE pieceOf(_, _)
pieceOf(cells, part) ==
    LET more == {c \in cells \ part : \E d \in part :
                    \/ c[1] = d[1] /\ (c[2] = d[2] + 1 \/ c[2] = d[2] - 1)
                    \/ c[2] = d[2] /\ (c[1] = d[1] + 1 \/ c[1] = d[1] - 1)}
    IN  IF more = {} THEN part ELSE pieceOf(cells, part \cup more)

\* the pieces of cells
RECURSIVE piecesOf(_)
piecesOf(cells) ==
    IF cells = {} THEN {}
    ELSE {pieceOf(cells, {CHOOSE c \in cells : TRUE})}
         \cup piecesOf(cells \ pieceOf(cells, {CHOOSE c \in cells : TRUE}))

\* np.argmax([x.area for x in inter]): of the pieces the one of the biggest
\* area, of several biggest pieces the one the library lists first
biggestOf(pieces, order) ==
    IF pieces = {} THEN {}
    ELSE IF order = "forward"
    THEN CHOOSE p \in pieces : \A r \in pieces :
             \/ Cardinality(r) < Cardinality(p)
             \/ Cardinality(r) = Cardinality(p)
                /\ npmin({c[1] : c \in p}) <= npmin({c[1] : c \in r})
    ELSE CHOOSE p \in pieces : \A r \in pieces :
             \/ Cardinality(r) < Cardinality(p)
             \/ Cardinality(r) = Cardinality(p)
                /\ npmin({c[1] : c \in p}) >= npmin({c[1] : c \in r})

\* inter = poly.intersection(combiPoly); if not isinstance(inter,PolygonS):
\* inter = inter[np.argmax([x.area for x in inter])]: cells is the region
\* within combiPoly
intersection(cells, order) == biggestOf(piecesOf(cells), order)

\* Polygons: one polygon per region, the region itself or its intersection
\* with combiPoly; site is the point the region belongs to
PolygonsOf(regions, combiPoly, order) ==
    [i \in DOMAIN regions |->
        [site |-> regions[i],
         cells |-> intersection(regionCells(regions[i], Range(regions), combiPoly),
                                order)]]

\* variant, not the program: the number of polygons is not compared with the
\* number of points
countCheck_none(pointsX, Polygons) ==
    [raised |-> "none", message |-> <<>>, ret |-> Polygons, calls |-> <<"Voronoi">>]

\* if not len(pointsX)==len(Polygons): raise AttributeError(...)
countCheck(pointsX, Polygons) ==
    IF Len(pointsX) # Len(Polygons)
    THEN [raised |-> "AttributeError",
          message |-> <<"The number of points given is not the same as the number of polygons created">>,
          ret |-> <<>>, calls |-> <<"Voronoi">>]
    ELSE [raised |-> "none", message |-> <<>>, ret |-> Polygons,
          calls |-> <<"Voronoi">>]

\* an error raised before Voronoi is called
failsEarly(error, text) ==
    [raised |-> error, message |-> text, ret |-> <<>>, calls |-> <<>>]

\* variant, not the program: a point on the boundary counts as contained
containsAllPoints_orOn(combiPoly, pointsX, pointsY) ==
    \A i \in DOMAIN pointsX :
        { <<2 * pointsX[i] - 1, 2 * pointsY[i] - 1>>, <<2 * pointsX[i], 2 * pointsY[i] - 1>>,
          <<2 * pointsX[i] - 1, 2 * pointsY[i]>>, <<2 * pointsX[i], 2 * pointsY[i]>> }
        \cap combiPoly # {}

\* containsAllPoints = np.all([combiPoly.contains(PointS(pointsX[i],pointsY[i]))
\* for i in range(len(pointsX))])
containsAllPoints(combiPoly, pointsX, pointsY) ==
    \A i \in DOMAIN pointsX : contains(combiPoly, <<2 * pointsX[i], 2 * pointsY[i]>>)

\* the part of voronoiTessellation after combiPoly, pointsX and pointsY are
\* known: the check of the boundary, the extra points (np.max of no points
\* raises ValueError), the diagram and the check of the number of polygons
tessellate(combiPoly, pointsX, pointsY, order) ==
    IF ~containsAllPoints(combiPoly, pointsX, pointsY)
    THEN failsEarly("AttributeError",
                    <<"The provided boundary does not contain all points">>)
    ELSE IF pointsX = <<>>
    THEN failsEarly("ValueError", <<>>)
    ELSE countCheck(pointsX, PolygonsOf(regionsOf(sitesOf(pointsX, pointsY), order),
                                        combiPoly, order))

\* BoundPoly: the outcome of convexHullPoints for every group, or Boundary
BoundPolyOf(points_, Boundary_, numGroups_) ==
    IF Boundary_ = <<>>
    THEN [i \in 1..numGroups_ |-> convexHullPoints(points_[i][1], points_[i][2])]
    ELSE [i \in DOMAIN Boundary_ |-> [raised |-> "none", ret |-> Boundary_[i]]]

\* combiPoly of two or more polygons: BoundPoly[0].union(BoundPoly[1]), then
\* the union with every further polygon
unionOf(BoundPoly) == UNION {BoundPoly[i].ret : i \in DOMAIN BoundPoly}

\* the part of voronoiTessellation after BoundPoly: with one group the
\* boundary and the points of the first group; else the union of all
\* boundaries (BoundPoly[1] of fewer than two raises IndexError) and the points
\* of all groups, or points[0], points[1] when a boundary was given
combine(points_, Boundary_, numGroups_, BoundPoly, order) ==
    IF \E i \in DOMAIN BoundPoly : BoundPoly[i].raised # "none"
    THEN failsEarly("IndexError", <<>>)
    ELSE IF numGroups_ = 1
    THEN tessellate(BoundPoly[1].ret, points_[1][1], points_[1][2], order)
    ELSE IF Len(BoundPoly) < 2
    THEN failsEarly("IndexError", <<>>)
    ELSE IF Boundary_ = <<>>
    THEN tessellate(unionOf(BoundPoly), concatenate(points_, 1, numGroups_),
                    concatenate(points_, 2, numGroups_), order)
    ELSE tessellate(unionOf(BoundPoly), points_[1], points_[2], order)

\* if numGroups == False: numGroups = len(points)
numGroupsOf(points_, numGroups_) ==
    IF numGroups_ = 0 THEN Len(points_) ELSE numGroups_

\* voronoiTessellation(points,Boundary=Boundary,numGroups=numGroups): returns
\* the polygons; order is the order in which Voronoi lists the regions
voronoiTessellation(points_, Boundary_, numGroups_, order) ==
    combine(points_, Boundary_, numGroupsOf(points_, numGroups_),
            BoundPolyOf(points_, Boundary_, numGroupsOf(points_, numGroups_)),
            order)

-----------------------------------------------------------------------------
(* plotA3A4.  A data file is a record of its attributes (Ei in hundredths,   *)
(* the temperature and the fields in tenths, each attribute <<v>> for the    *)
(* value v and <<>> for None), of the raster values A3 and A4 (A4 as the     *)
(* detector angles, A4InstrAll) and of I, Norm and Monitor, one number per   *)
(* point of the raster for the one plane that is plotted.  Centroids are     *)
(* four-fold.                                                                 *)

\* np.isclose(a,b,atol=atol): |a - b| <= atol + rtol * |b| with rtol = 1e-5,
\* both sides multiplied by 10^5
isclose(a, b, atol) ==
    100000 * (IF a >= b THEN a - b ELSE b - a)
    <= 100000 * atol + (IF b >= 0 THEN b ELSE -b)

\* variant, not the program: a missing value compares equal to any value
compareNones_lenient(first, second, margin) ==
    IF first = <<>> \/ second = <<>> THEN TRUE
    ELSE isclose(first[1], second[1], margin)

\* compareNones(first,second,margin): both None, or of the same type and
\* close; a value and None are of different types
compareNones(first, second, margin) ==
    IF first = <<>> /\ second = <<>> THEN TRUE
    ELSE IF first = <<>> \/ second = <<>> THEN FALSE
    ELSE isclose(first[1], second[1], margin)

\* testFiles(files,numFiles): tests[errors], the names of the attributes in
\* which some file differs from the first file; Ei_err = 0.05, the other
\* margins 0.2
testFiles(files_) ==
    LET others == 2..Len(files_)
        comparison ==
            << \A i \in others : isclose(files_[1].Ei[1], files_[i].Ei[1], 5),
               \A i \in others :
                   compareNones(files_[1].temperature, files_[i].temperature, 2),
               \A i \in others :
                   compareNones(files_[1].magneticField, files_[i].magneticField, 2),
               \A i \in others :
                   compareNones(files_[1].electricField, files_[i].electricField, 2),
               \A i \in others : files_[1].binning = files_[i].binning >>
        tests == <<"Ei", "Temperature", "Magnetic Field", "Electric Field", "Binning">>
    IN  MaskSelect(tests, [t \in 1..5 |-> ~comparison[t]])

\* np.unique(PosAll,axis=1): the distinct points of S, sorted by x and then y
RECURSIVE uniqueColumns(_)
uniqueColumns(S) ==
    IF S = {} THEN <<>>
    ELSE LET m == CHOOSE p \in S : \A r \in S :
                      p[1] < r[1] \/ (p[1] = r[1] /\ p[2] <= r[2])
         IN  <<m>> \o uniqueColumns(S \ {m})

\* np.nanmean([a, b], axis=0) of two numbers: NaN is left out of the mean,
\* the mean of nothing is NaN
nanmean(a, b) ==
    IF a = NaN THEN b ELSE IF b = NaN THEN a ELSE (a + b) \div 2

\* a[index] = a[index] + b, the effect of a[index] += b: every assignment
\* starts from the old a[index], and of the assignments to an element that
\* index names more than once the last one stays
addAt(a, index, b) ==
    [j \in DOMAIN a |->
        IF \E d \in DOMAIN index : index[d] = j
        THEN a[j] + b[npmax({d \in DOMAIN index : index[d] = j})]
        ELSE a[j]]

\* a[index] = np.nanmean([a[index], b], axis=0)
nanmeanAt(a, index, b) ==
    [j \in DOMAIN a |->
        IF \E d \in DOMAIN index : index[d] = j
        THEN nanmean(a[j], b[npmax({d \in DOMAIN index : index[d] = j})])
        ELSE a[j]]

\* np.concatenate of the arrays named field of all files
RECURSIVE concatenated(_, _)
concatenated(files_, field) ==
    IF files_ = <<>> THEN <<>>
    ELSE concatenated(SubSeq(files_, 1, Len(files_) - 1), field)
         \o files_[Len(files_)][field]

\* PosAll = np.concatenate(points,axis=1): the points <<x, y>> of the rasters
\* of all files, file after file
RECURSIVE PosAllOf(_)
PosAllOf(files_) ==
    IF files_ = <<>> THEN <<>>
    ELSE PosAllOf(SubSeq(files_, 1, Len(files_) - 1))
         \o [k \in 1..(Len(files_[Len(files_)].A3) * Len(files_[Len(files_)].A4)) |->
                <<rasterOf(files_[Len(files_)].A3, files_[Len(files_)].A4)[1][k],
                  rasterOf(files_[Len(files_)].A3, files_[Len(files_)].A4)[2][k]>>]

\* the data of the repeated points are merged into those of the first ones:
\* uindex is the first place of every point of unique_ in PosAll, mask are
\* the places of the repeated points and doubleIndex their places in unique_
mergedData(files_, PosAll, unique_) ==
    LET uindex == [j \in DOMAIN unique_ |->
                      npmin({i \in DOMAIN PosAll : PosAll[i] = unique_[j]})]
        mask == [i \in DOMAIN PosAll |-> \A j \in DOMAIN uindex : uindex[j] # i]
        doubleIndex ==
            MaskSelect([i \in DOMAIN PosAll |->
                           CHOOSE j \in DOMAIN unique_ : unique_[j] = PosAll[i]], mask)
        first(field) == [j \in DOMAIN uindex |-> concatenated(files_, field)[uindex[j]]]
        double(field) == MaskSelect(concatenated(files_, field), mask)
    IN  [Isorted |-> addAt(first("I"), doubleIndex, double("I")),
         Normsorted |-> nanmeanAt(first("Norm"), doubleIndex, double("Norm")),
         Monsorted |-> addAt(first("Monitor"), doubleIndex, double("Monitor"))]

\* the points, the boundaries and the data of plotA3A4, from the meshgrid of
\* every file to Monsorted.  With repeated points the boundaries are the
\* hulls of the files, the points are unique_ and the data are merged;
\* without, the points stay those of the files, in groups, and the data keep
\* the order of PosAll.  X are the points in the order of the data.
pointsAndBoundary(files_, PosAll, unique_) ==
    IF Len(unique_) < Len(PosAll)
    THEN [BoundPoly |-> [i \in DOMAIN files_ |->
                            convexHullPoints(rasterOf(files_[i].A3, files_[i].A4)[1],
                                             rasterOf(files_[i].A3, files_[i].A4)[2])],
          points |-> << [j \in DOMAIN unique_ |-> unique_[j][1]],
                        [j \in DOMAIN unique_ |-> unique_[j][2]] >>,
          X |-> unique_,
          data |-> mergedData(files_, PosAll, unique_)]
    ELSE [BoundPoly |-> <<>>,
          points |-> [i \in DOMAIN files_ |-> rasterOf(files_[i].A3, files_[i].A4)],
          X |-> PosAll,
          data |-> [Isorted |-> concatenated(files_, "I"),
                    Normsorted |-> concatenated(files_, "Norm"),
                    Monsorted |-> concatenated(files_, "Monitor")]]

genPointsAndBoundary(files_) ==
    pointsAndBoundary(files_, PosAllOf(files_), uniqueColumns(Range(PosAllOf(files_))))

\* centeroidnp(arr) of the vertices of a polygon, four-fold: the polygons of
\* a raster are rectangles, the mean of the four corners is the middle
centeroidnp(polygon) ==
    << npmin({c[1] : c \in polygon.cells}) + npmax({c[1] : c \in polygon.cells}) + 1,
       npmin({c[2] : c \in polygon.cells}) + npmax({c[2] : c \in polygon.cells}) + 1 >>

\* kdtree = KDTree(X); _,A = kdtree.query(Y): for every centroid of Y the
\* index of a point of X nearest to it; which of several nearest points is
\* named is the library's choice
RECURSIVE queries(_, _)
queries(X, Y) ==
    IF Y = <<>> THEN {<<>>}
    ELSE LET y == Y[Len(Y)]
             d(i) == (y[1] - 4 * X[i][1]) * (y[1] - 4 * X[i][1])
                     + (y[2] - 4 * X[i][2]) * (y[2] - 4 * X[i][2])
         IN  {Append(A, i) : A \in queries(X, SubSeq(Y, 1, Len(Y) - 1)),
                             i \in {i \in DOMAIN X : \A k \in DOMAIN X : d(i) <= d(k)}}

\* variant, not the program: a point named by several centroids is accepted
sortPoints_unchecked(A, GoodPolyPoints) ==
    [raised |-> "none", message |-> <<>>,
     ret |-> [j \in DOMAIN SortedUnique(Range(A)) |->
                 GoodPolyPoints[npmin({k \in DOMAIN A : A[k] = SortedUnique(Range(A))[j]})]]]

\* _,SortUindex,SortCount = np.unique(A,return_index=True,return_counts=True):
\* the indices named in A, ascending, the first place of each in A and how
\* often A names it; an index named more than once raises, else
\* sortedPolyPoints = GoodPolyPoints[SortUindex]
sortPoints(A, GoodPolyPoints) ==
    LET named == SortedUnique(Range(A))
        SortUindex == [j \in DOMAIN named |-> npmin({k \in DOMAIN A : A[k] = named[j]})]
    IN  IF \E j \in DOMAIN named : Cardinality({k \in DOMAIN A : A[k] = named[j]}) > 1
        THEN [raised |-> "AttributeError",
              message |-> <<"The number of points connecting the centroids from Tessellation and points are not equal...">>,
              ret |-> <<>>]
        ELSE [raised |-> "none", message |-> <<>>,
              ret |-> [j \in DOMAIN SortUindex |-> GoodPolyPoints[SortUindex[j]]]]

\* the polygons of voronoiTessellation with their centroids, or its error
withCentroids(g, tess) ==
    [raised |-> tess.raised, message |-> tess.message, calls |-> tess.calls,
     data |-> g.data,
     X |-> IF tess.raised = "none" THEN g.X ELSE <<>>,
     polygons |-> tess.ret,
     centroids |-> [k \in DOMAIN tess.ret |-> centeroidnp(tess.ret[k])]]

\* plotA3A4 after testFiles and up to the centroids: errors are the names
\* testFiles found, g the points, boundaries and data; with one file the
\* points are one group, numGroups = 1
tessellation(errors, g, numFiles, order) ==
    IF errors # <<>>
    THEN [raised |-> "AttributeError",
          message |-> <<"Attributes for the datafiles are not the same! Difference is in :">>
                      \o errors,
          calls |-> <<>>, data |-> <<>>, X |-> <<>>, polygons |-> <<>>,
          centroids |-> <<>>]
    ELSE IF \E i \in DOMAIN g.BoundPoly : g.BoundPoly[i].raised # "none"
    THEN [raised |-> "IndexError", message |-> <<>>, calls |-> <<>>,
          data |-> <<>>, X |-> <<>>, polygons |-> <<>>, centroids |-> <<>>]
    ELSE withCentroids(g,
             voronoiTessellation(
                 IF numFiles = 1 /\ g.BoundPoly # <<>> THEN <<g.points>> ELSE g.points,
                 [i \in DOMAIN g.BoundPoly |-> g.BoundPoly[i].ret],
                 IF numFiles = 1 THEN 1 ELSE 0, order))

\* plotA3A4 up to the centroids
calcCentroids(files_, order) ==
    tessellation(testFiles(files_), genPointsAndBoundary(files_), Len(files_), order)

\* plotA3A4 from the matching on: c is the outcome of calcCentroids and
\* sorted that of sortPoints.  ret is what is plotted: for the k-th point
\* of points the polygon sortedPolyPoints[k] and the data Isorted[k],
\* Normsorted[k], Monsorted[k]
patches(c, sorted) ==
    IF c.raised # "none"
    THEN [raised |-> c.raised, message |-> c.message, ret |-> <<>>, calls |-> c.calls]
    ELSE IF sorted.raised # "none"
    THEN [raised |-> sorted.raised, message |-> sorted.message, ret |-> <<>>,
          calls |-> c.calls]
    ELSE [raised |-> "none", message |-> <<>>,
          ret |-> [points |-> c.X,
                   sortedPolyPoints |-> sorted.ret,
                   Isorted |-> c.data.Isorted,
                   Normsorted |-> c.data.Normsorted,
                   Monsorted |-> c.data.Monsorted],
          calls |-> c.calls \o <<"PatchCollection">>]

\* plotA3A4(files) when the KDTree answers A for the outcome c of
\* calcCentroids: [raised, message, ret, calls]
plotA3A4(c, A) == patches(c, sortPoints(A, c.polygons))

-----------------------------------------------------------------------------
(* Initial states: the inputs of one call *)

\* the ascending arrays of one to MaxLen centre coordinates
AscendingArrays ==
    {c \in SeqUpTo(CentreCoords, MaxLen) :
        Len(c) >= 1 /\ \A i \in 1..(Len(c) - 1) : c[i] < c[i+1]}

NoCloud ==
    /\ positions = <<>> /\ I = <<>> /\ Norm = <<>> /\ Monitor = <<>>

NoCut ==
    /\ QPoints = <<>> /\ width = 1 /\ minPixel = 1 /\ Emin = 0 /\ Emax = 0
    /\ EnergyBins = <<>> /\ extend = TRUE /\ format = "qxqy"

NoCall ==
    /\ pc = "start" /\ op = "none" /\ ret = <<>> /\ raised = "none"
    /\ message = <<>> /\ segmentCuts = <<>>
    /\ offset = <<>> /\ pmeshs = <<>> /\ calls = <<>>

Cloud ==
    /\ positions \in SeqUpTo(PointSet, MaxPts)
    /\ I = IOf(Len(positions))
    /\ Norm = NormOf(Len(positions))
    /\ Monitor = MonitorOf(Len(positions))

NoBin == values = <<>> /\ tolerance = 1

NoGrid == steps = <<1, 1, 1>> /\ centres = <<>>

NoVoronoi == points = <<>> /\ Boundary = <<>> /\ numGroups = 0

NoFiles == files = <<>> /\ centroids = <<>>

NoObjects == qPoint = <<>> /\ dataset = <<>> /\ viewer = <<>>

InitCut ==
    /\ Cloud
    /\ QPoints \in Segments
    /\ width \in Widths
    /\ minPixel \in MinPixels
    /\ \E w \in EnergyWindows : Emin = w[1] /\ Emax = w[2]
    /\ extend \in BOOLEAN
    /\ EnergyBins = <<>> /\ format = "qxqy"
    /\ NoBin /\ NoGrid /\ NoVoronoi /\ NoFiles /\ NoObjects /\ NoCall

\* a cloud and an array q for cut1DE
InitE ==
    /\ Cloud
    /\ qPoint \in QArrays
    /\ width \in Widths
    /\ minPixel \in MinPixels
    /\ \E w \in EnergyWindows : Emin = w[1] /\ Emax = w[2]
    /\ QPoints = <<>> /\ extend = TRUE /\ EnergyBins = <<>> /\ format = "qxqy"
    /\ dataset = <<>> /\ viewer = <<>>
    /\ NoBin /\ NoGrid /\ NoVoronoi /\ NoFiles /\ NoCall

InitQE ==
    /\ positions \in SeqUpTo(SlicePoints, MaxPts)
    /\ I = IOf(Len(positions))
    /\ Norm = NormOf(Len(positions))
    /\ Monitor = MonitorOf(Len(positions))
    /\ QPoints \in Segments
    /\ width \in {2, 3}
    /\ minPixel = 1
    /\ EnergyBins \in EnergyBinSets
    /\ extend \in BOOLEAN
    /\ Emin = 0 /\ Emax = 0 /\ format = "qxqy"
    /\ NoBin /\ NoGrid /\ NoVoronoi /\ NoFiles /\ NoObjects /\ NoCall

InitLine ==
    /\ positions \in SeqUpTo(LinePoints, MaxPts)
    /\ I = IOf(Len(positions))
    /\ Norm = NormOf(Len(positions))
    /\ Monitor = MonitorOf(Len(positions))
    /\ QPoints \in Paths
    /\ width \in {2, 3}
    /\ minPixel = 1
    /\ EnergyBins \in EnergyBinSets \ {<<>>}
    /\ format \in Formats
    /\ Emin = 0 /\ Emax = 0 /\ extend = TRUE
    /\ NoBin /\ NoGrid /\ NoVoronoi /\ NoFiles /\ NoObjects /\ NoCall

\* a cloud with pixels that are masked (normalization NaN) or have no
\* normalization or no monitor, cut along one segment
InitInt ==
    /\ positions \in SeqUpTo(IntPoints, MaxPts) \ {<<>>}
    /\ I = IOf(Len(positions))
    /\ \E pixels \in [DOMAIN positions -> PixelKinds] :
           /\ Norm = [i \in DOMAIN positions |-> pixels[i][1]]
           /\ Monitor = [i \in DOMAIN positions |-> pixels[i][2]]
    /\ QPoints = << <<0, 0>>, <<4, 0>> >>
    /\ width = 2
    /\ minPixel = 1
    /\ EnergyBins \in { <<0, 2>>, <<0, 1, 2>> }
    /\ format = "qxqy"
    /\ Emin = 0 /\ Emax = 0 /\ extend = TRUE
    /\ NoBin /\ NoGrid /\ NoVoronoi /\ NoFiles /\ NoObjects /\ NoCall

InitBinEdges ==
    /\ values \in SeqUpTo(Coords, MaxLen)
    /\ tolerance \in Tolerances
    /\ NoCloud /\ NoCut /\ NoGrid /\ NoVoronoi /\ NoFiles /\ NoObjects /\ NoCall

\* a cloud for cutPowder: the points whose |q| is an integer
InitPowder ==
    /\ Cloud
    /\ \A i \in DOMAIN positions : HasIntegerNorm(<<positions[i][1], positions[i][2]>>)
    /\ EnergyBins \in EnergyBinSets
    /\ minPixel \in MinPixels
    /\ QPoints = <<>> /\ width = 1 /\ Emin = 0 /\ Emax = 0 /\ extend = TRUE
    /\ format = "qxqy"
    /\ NoBin /\ NoGrid /\ NoVoronoi /\ NoFiles /\ NoObjects /\ NoCall

InitBin == InitBinEdges \/ InitPowder

\* a cloud for binData3D
InitBinData ==
    /\ positions \in SeqUpTo(GridPoints, MaxPts)
    /\ I = IOf(Len(positions))
    /\ Norm = NormOf(Len(positions))
    /\ Monitor = MonitorOf(Len(positions))
    /\ steps \in GridSteps
    /\ centres = <<>>
    /\ NoCut /\ NoBin /\ NoVoronoi /\ NoFiles /\ NoObjects /\ NoCall

\* bin centres for calculateGrid3D: per axis an ascending array
InitCentres ==
    /\ centres \in AscendingArrays \X AscendingArrays \X AscendingArrays
    /\ steps = <<1, 1, 1>>
    /\ NoCloud /\ NoCut /\ NoBin /\ NoVoronoi /\ NoFiles /\ NoObjects /\ NoCall

InitGrid == InitBinData \/ InitCentres

\* one group of points, a raster, and no boundary given
InitRaster ==
    /\ \E A3 \in AxisArrays : \E A4 \in AxisArrays : points = <<rasterOf(A3, A4)>>
    /\ Boundary = <<>>
    /\ numGroups = 0
    /\ NoCloud /\ NoCut /\ NoBin /\ NoGrid /\ NoFiles /\ NoObjects /\ NoCall

\* two groups of points, both rasters, and no boundary given
InitTwoRasters ==
    /\ \E A3 \in AxisArrays : \E A4 \in AxisArrays :
       \E B3 \in SecondAxisArrays : \E B4 \in SecondAxisArrays :
           points = <<rasterOf(A3, A4), rasterOf(B3, B4)>>
    /\ Boundary = <<>>
    /\ numGroups = 0
    /\ NoCloud /\ NoCut /\ NoBin /\ NoGrid /\ NoFiles /\ NoObjects /\ NoCall

\* one group of points and its boundary, numGroups = 1
InitOneBoundary ==
    /\ \E P \in SeqUpTo(TessPoints, MaxPts) :
           points = << << [i \in DOMAIN P |-> P[i][1]], [i \in DOMAIN P |-> P[i][2]] >> >>
    /\ Boundary = <<PolygonS(LeftSquare)>>
    /\ numGroups = 1
    /\ NoCloud /\ NoCut /\ NoBin /\ NoGrid /\ NoFiles /\ NoObjects /\ NoCall

\* the points <<X, Y>> of all groups and the boundaries of two groups
InitTwoBoundaries ==
    /\ \E P \in SeqUpTo(TessPoints, MaxPts) :
           points = << [i \in DOMAIN P |-> P[i][1]], [i \in DOMAIN P |-> P[i][2]] >>
    /\ Boundary = <<PolygonS(LeftSquare), PolygonS(RightSquare)>>
    /\ numGroups = 0
    /\ NoCloud /\ NoCut /\ NoBin /\ NoGrid /\ NoFiles /\ NoObjects /\ NoCall

\* the i-th data file: its attributes, the raster of A3 and the detector
\* angles <<0, 1>>, and data that tell the points of all files apart; the
\* normalization of the first point is NaN when masked
fileOf(i, attributes, A3, masked) ==
    [Ei |-> attributes.Ei, temperature |-> attributes.temperature,
     magneticField |-> attributes.magneticField,
     electricField |-> attributes.electricField, binning |-> attributes.binning,
     A3 |-> A3, A4 |-> <<0, 1>>,
     I |-> [k \in 1..(2 * Len(A3)) |-> 16 ^ (i - 1) * 2 ^ (k - 1)],
     Norm |-> [k \in 1..(2 * Len(A3)) |->
                  IF masked /\ k = 1 THEN NaN ELSE 2 * (4 * (i - 1) + k)],
     Monitor |-> [k \in 1..(2 * Len(A3)) |-> 10 * 16 ^ (i - 1) * 2 ^ (k - 1)]]

\* one to MaxFiles data files of the same raster and of any attributes
InitAttributes ==
    /\ \E a \in SeqUpTo(FileAttributes, MaxFiles) :
           /\ a # <<>>
           /\ files = [i \in DOMAIN a |-> fileOf(i, a[i], <<0, 1>>, FALSE)]
    /\ centroids = <<>>
    /\ NoCloud /\ NoCut /\ NoBin /\ NoGrid /\ NoVoronoi /\ NoObjects /\ NoCall

\* one to MaxFiles data files of the same attributes and of any rasters; the
\* first pixel of at most one file is masked
InitRasters ==
    /\ \E r \in SeqUpTo(A3Arrays, MaxFiles) : \E masked \in 0..Len(r) :
           /\ r # <<>>
           /\ files = [i \in DOMAIN r |->
                          fileOf(i, CHOOSE a \in FileAttributes :
                                        a.Ei = <<500>> /\ a.temperature = <<10>>
                                        /\ a.binning = 8,
                                 r[i], i = masked)]
    /\ centroids = <<>>
    /\ NoCloud /\ NoCut /\ NoBin /\ NoGrid /\ NoVoronoi /\ NoObjects /\ NoCall

\* points, as the array <<X, Y>> of distinct points, and one centroid of a
\* polygon for every point, as voronoiTessellation returns one polygon per
\* point
InitMatch ==
    /\ \E P \in SeqUpTo(MatchPoints, MaxPts) :
           /\ P # <<>>
           /\ \A i \in DOMAIN P : \A j \in DOMAIN P : i # j => P[i] # P[j]
           /\ points = << [i \in DOMAIN P |-> P[i][1]], [i \in DOMAIN P |-> P[i][2]] >>
           /\ centroids \in [DOMAIN P -> CentroidSet]
    /\ Boundary = <<>> /\ numGroups = 0 /\ files = <<>>
    /\ NoCloud /\ NoCut /\ NoBin /\ NoGrid /\ NoObjects /\ NoCall

InitA3A4 == InitAttributes \/ InitRasters \/ InitMatch

InitTess == InitRaster \/ InitTwoRasters \/ InitOneBoundary \/ InitTwoBoundaries

-----------------------------------------------------------------------------
(* Actions: one call of an operation *)

binEdgesCall ==
    /\ pc = "start"
    /\ ret' = binEdges(values, tolerance)
    /\ pc' = "done" /\ op' = "binEdges"
    /\ UNCHANGED <<inputs, mutable, raised, message, segmentCuts, offset, pmeshs, calls>>

cut1DCall ==
    /\ pc = "start"
    /\ Len(QPoints) >= 2
    /\ ret' = cut1D(positions, I, Norm, Monitor, QPoints[1], QPoints[2],
                    width, minPixel, Emin, Emax, extend)
    /\ pc' = "done" /\ op' = "cut1D"
    /\ UNCHANGED <<inputs, mutable, raised, message, segmentCuts, offset, pmeshs, calls>>

\* cut1DE: the outcome is stored, and q is what the call left of it
cut1DECall ==
    /\ pc = "start"
    /\ LET outcome == cut1DE(positions, I, Norm, Monitor, Emin, Emax, qPoint,
                             width, minPixel)
       IN  /\ ret' = outcome.ret
           /\ raised' = outcome.raised
           /\ message' = outcome.message
           /\ qPoint' = outcome.q
    /\ pc' = "done" /\ op' = "cut1DE"
    /\ UNCHANGED <<inputs, dataset, viewer, segmentCuts, offset, pmeshs, calls>>

cutPowderCall ==
    /\ pc = "start"
    /\ ret' = cutPowder(positions, I, Norm, Monitor, EnergyBins, minPixel)
    /\ pc' = "done" /\ op' = "cutPowder"
    /\ UNCHANGED <<inputs, mutable, raised, message, segmentCuts, offset, pmeshs, calls>>

\* the outcome of a method call is stored: its value or its error, and the
\* segments it cut
returns(outcome) ==
    /\ ret' = outcome.ret
    /\ raised' = outcome.raised
    /\ message' = outcome.message
    /\ segmentCuts' = outcome.cuts

\* the outcome of plotCutQELine is stored, with what it put on the axis
plots(outcome) ==
    /\ returns(outcome)
    /\ offset' = outcome.offset
    /\ pmeshs' = outcome.pmeshs

\* the outcome of a function call is stored: its value or its error
gives(outcome) ==
    /\ ret' = outcome.ret
    /\ raised' = outcome.raised

binData3DCall ==
    /\ pc = "start"
    /\ centres = <<>>
    /\ gives(binData3D(steps, positions, I, Norm, Monitor))
    /\ pc' = "done" /\ op' = "binData3D"
    /\ UNCHANGED <<inputs, mutable, message, segmentCuts, offset, pmeshs, calls>>

calculateGrid3DCall ==
    /\ pc = "start"
    /\ centres # <<>>
    /\ gives(gridOfCentres(centres))
    /\ pc' = "done" /\ op' = "calculateGrid3D"
    /\ UNCHANGED <<inputs, mutable, message, segmentCuts, offset, pmeshs, calls>>

\* convexHullPoints of the first group, as voronoiTessellation calls it
convexHullPointsCall ==
    /\ pc = "start"
    /\ Boundary = <<>> /\ points # <<>>
    /\ gives(convexHullPoints(points[1][1], points[1][2]))
    /\ pc' = "done" /\ op' = "convexHullPoints"
    /\ UNCHANGED <<inputs, mutable, message, segmentCuts, offset, pmeshs, calls>>

\* the outcome of voronoiTessellation is stored, with the library calls made
tessellates(outcome) ==
    /\ gives(outcome)
    /\ message' = outcome.message
    /\ calls' = outcome.calls

voronoiTessellationCall ==
    /\ pc = "start"
    /\ \E order \in RegionOrders :
           tessellates(voronoiTessellation(points, Boundary, numGroups, order))
    /\ pc' = "done" /\ op' = "voronoiTessellation"
    /\ UNCHANGED <<inputs, mutable, segmentCuts, offset, pmeshs>>

\* the matching of polygons and points in plotA3A4, for points.T and the
\* polygons 1, 2, ... with the given centroids
sortPointsCall ==
    /\ pc = "start"
    /\ centroids # <<>>
    /\ \E A \in queries([i \in DOMAIN points[1] |-> <<points[1][i], points[2][i]>>],
                         centroids) :
           LET outcome == sortPoints(A, [k \in DOMAIN centroids |-> k])
           IN  /\ ret' = outcome.ret
               /\ raised' = outcome.raised
               /\ message' = outcome.message
    /\ pc' = "done" /\ op' = "sortPoints"
    /\ UNCHANGED <<inputs, mutable, segmentCuts, offset, pmeshs, calls>>

\* plotA3A4 from the matching on, for every answer the KDTree may give
matches(c) ==
    \E A \in queries(c.X, c.centroids) : tessellates(plotA3A4(c, A))

plotA3A4Call ==
    /\ pc = "start"
    /\ files # <<>>
    /\ \E order \in RegionOrders : matches(calcCentroids(files, order))
    /\ pc' = "done" /\ op' = "plotA3A4"
    /\ UNCHANGED <<inputs, mutable, segmentCuts, offset, pmeshs>>

cutQECall ==
    /\ pc = "start"
    /\ Len(QPoints) >= 2
    /\ ret' = cutQE(positions, I, Norm, Monitor, QPoints[1], QPoints[2],
                    width, minPixel, EnergyBins, extend)
    /\ pc' = "done" /\ op' = "cutQE"
    /\ UNCHANGED <<inputs, mutable, raised, message, segmentCuts, offset, pmeshs, calls>>

cutQELineCall ==
    /\ pc = "start"
    /\ returns(cutQELine(positions, I, Norm, Monitor, QPoints, EnergyBins,
                         width, minPixel, format))
    /\ pc' = "done" /\ op' = "cutQELine"
    /\ UNCHANGED <<inputs, mutable, offset, pmeshs, calls>>

plotCutQELineCall ==
    /\ pc = "start"
    /\ plots(plotCutQELine(positions, I, Norm, Monitor, QPoints, EnergyBins,
                           width, minPixel, format))
    /\ pc' = "done" /\ op' = "plotCutQELine"
    /\ UNCHANGED <<inputs, mutable, calls>>

NextBin == binEdgesCall \/ cutPowderCall

NextQE == cutQECall

NextLine == cutQELineCall \/ plotCutQELineCall

NextCut == cut1DCall

NextE == cut1DECall

NextA3A4 == plotA3A4Call \/ sortPointsCall

NextGrid == binData3DCall \/ calculateGrid3DCall

NextTess == convexHullPointsCall \/ voronoiTessellationCall

SpecBin == InitBin /\ [][NextBin]_vars

SpecCut == InitCut /\ [][NextCut]_vars

SpecQE == InitQE /\ [][NextQE]_vars

SpecLine == InitLine /\ [][NextLine]_vars
SpecInt == InitInt /\ [][NextLine]_vars

SpecE == InitE /\ [][NextE]_vars

SpecA3A4 == InitA3A4 /\ [][NextA3A4]_vars

SpecGrid == InitGrid /\ [][NextGrid]_vars

SpecTess == InitTess /\ [][NextTess]_vars

-----------------------------------------------------------------------------
(* Properties of binEdges.  Edges are doubled: a value x is compared as 2*x, *)
(* a tolerance t as 2*t.                                                     *)

BinEdgesDone == pc = "done" /\ op = "binEdges"

CutPowderDone == pc = "done" /\ op = "cutPowder"

Min(S) == CHOOSE x \in S : \A y \in S : x <= y
Max(S) == CHOOSE x \in S : \A y \in S : x >= y

StrictlyIncreasing(e) == \A k \in 1..(Len(e) - 1) : e[k] < e[k+1]

\* every interval but the last is at least t wide
WideButLast(e, t) == \A k \in 1..(Len(e) - 2) : e[k+1] - e[k] >= 2 * t

\* C2: bin-edge coverage.  For a non-empty array and a tolerance t > 0, every
\* element lies strictly between two consecutive returned edges.
C2_Coverage ==
    (BinEdgesDone /\ values # <<>>)
    => \A x \in Range(values) :
           \E k \in 1..(Len(ret) - 1) : ret[k] < 2 * x /\ 2 * x < ret[k+1]

\* C2 witness: an unsorted array with a repeated value, binned into several
\* intervals
C2_Witness ==
    /\ BinEdgesDone
    /\ Len(values) = 3
    /\ values[1] > values[2]
    /\ values[2] = values[3]
    /\ Len(ret) = 3

\* C3: bin-edge endpoints.  For a non-empty array the first edge is
\* min(X) - t/2 and the last edge is max(X) + t/2.
C3_Endpoints ==
    (BinEdgesDone /\ values # <<>>)
    => /\ ret[1] = 2 * Min(Range(values)) - tolerance
       /\ ret[Len(ret)] = 2 * Max(Range(values)) + tolerance

\* C3 witness: a descending array of three distinct values, so that the first
\* edge comes from its last element and the last edge from its first
C3_Witness ==
    /\ BinEdgesDone
    /\ Len(values) = 3
    /\ values[2] < values[1]
    /\ values[2] > values[3]
    /\ ret[1] < ret[Len(ret)]
    /\ tolerance > 1

\* C4: the edges binEdges returns, and so the radial edges cutPowder returns
\* for each energy slice, are strictly increasing, and every interval but
\* possibly the last is at least the tolerance wide.
C4_IncreasingWide ==
    /\ BinEdgesDone => StrictlyIncreasing(ret) /\ WideButLast(ret, tolerance)
    /\ CutPowderDone =>
           \A i \in DOMAIN ret[2] :
               StrictlyIncreasing(ret[2][i]) /\ WideButLast(ret[2][i], minPixel)

\* C4 witness: three intervals, the last one narrower than the tolerance
C4_Witness ==
    /\ BinEdgesDone
    /\ Len(ret) = 4
    /\ ret[4] - ret[3] < 2 * tolerance

\* C5: bin-edge count.  For a non-empty array the number of returned edges is
\* at most len(X) + 1.
C5_EdgeCount ==
    (BinEdgesDone /\ values # <<>>) => Len(ret) <= Len(values) + 1

\* C5 witness: the bound is attained, one interval per element
C5_Witness ==
    /\ BinEdgesDone
    /\ Len(values) = 3
    /\ Len(ret) = Len(values) + 1

-----------------------------------------------------------------------------
(* Properties of cut1D.  The filters are restated per point, without the     *)
(* normalised frame of the code: with d = q2 - q1 and L = |d|, a point p has  *)
(* along * L = (p - q1) . d and ortho * L = (p - q1) . (d[2], -d[1]).         *)

segDir == <<QPoints[2][1] - QPoints[1][1], QPoints[2][2] - QPoints[1][2]>>
segLen2 == Dot(segDir, segDir)
alongL(p) == Dot(<<p[1] - QPoints[1][1], p[2] - QPoints[1][2]>>, segDir)
orthoL(p) == Dot(<<p[1] - QPoints[1][1], p[2] - QPoints[1][2]>>, <<segDir[2], -segDir[1]>>)

InEnergyWindow(p) == Emin <= p[3] /\ p[3] <= Emax
\* |ortho| < width/2
StrictlyInsideWidth(p) == 4 * orthoL(p) * orthoL(p) < width * width * segLen2
\* 0 < along < L
StrictlyBetween(p) == alongL(p) > 0 /\ alongL(p) < segLen2
\* 0 <= along <= L
BetweenOrAt(p) == alongL(p) >= 0 /\ alongL(p) <= segLen2
\* along = 0 or along = L
AtSegmentEnd(p) == alongL(p) = 0 \/ alongL(p) = segLen2

Cut1DDone == pc = "done" /\ op = "cut1D"

\* the aggregates of the returned Data list, summed over the bins
SumsOfCut == <<Sum(ret[1][1]), Sum(ret[1][2]), Sum(ret[1][3]), Sum(ret[1][4])>>

\* the sums of intensity, monitor, normalization and the number of the points
\* selected by mask
SumsOfPoints(mask) ==
    <<Sum(MaskSelect(I, mask)), Sum(MaskSelect(Monitor, mask)),
      Sum(MaskSelect(Norm, mask)), Sum(MaskSelect([i \in DOMAIN positions |-> 1], mask))>>

AllPoints == [i \in DOMAIN positions |-> TRUE]

\* C1: histogram conservation.  After cut1D with extend=True on a cloud whose
\* points all have energy in [Emin,Emax] and lie strictly inside the width,
\* the binned intensity, monitor and normalization sum to the sums of the
\* inputs and the norm counts sum to the number of points.
C1_Conservation ==
    (/\ Cut1DDone /\ extend
     /\ \A i \in DOMAIN positions :
            InEnergyWindow(positions[i]) /\ StrictlyInsideWidth(positions[i]))
    => SumsOfCut = SumsOfPoints(AllPoints)

\* C1 witness: two points, all inside, binned into two different bins
C1_Witness ==
    /\ Cut1DDone /\ extend
    /\ Len(positions) = 2
    /\ \A i \in DOMAIN positions :
            InEnergyWindow(positions[i]) /\ StrictlyInsideWidth(positions[i])
    /\ Len(ret[1][1]) = 2
    /\ ret[1][4] = <<1, 1>>

\* the points that pass every filter of the cut, as the specification states them
Survives(p) ==
    /\ InEnergyWindow(p)
    /\ extend \/ StrictlyBetween(p)
    /\ StrictlyInsideWidth(p)

\* C6: an empty result is not an error.  When no point passes the energy
\* filter, or none passes the spatial filters, cut1D returns four zero-length
\* aggregates and the energy range [Emin,Emax] without raising; in the spatial
\* case it returns the two corners of the orthogonal box as well.
C6_EmptyNotError ==
    (Cut1DDone /\ \A i \in DOMAIN positions : ~Survives(positions[i]))
    => /\ raised = "none"
       /\ ret[1] = << <<>>, <<>>, <<>>, <<>> >>
       /\ ret[2][3] = <<Emin, Emax>>
       /\ (\E i \in DOMAIN positions : InEnergyWindow(positions[i]))
            => /\ Len(ret[2][2]) = 2
               /\ ret[2][2][1] = <<-ret[2][2][2][1], -ret[2][2][2][2]>>
               /\ Dot(ret[2][2][2], segDir) = 0
               /\ Dot(ret[2][2][2], <<segDir[2], -segDir[1]>>) > 0
               /\ Dot(ret[2][2][2], ret[2][2][2]) = width * width

\* C6 witness: points pass the energy filter, none passes the spatial filters
C6_Witness ==
    /\ Cut1DDone
    /\ \A i \in DOMAIN positions : ~Survives(positions[i])
    /\ \E i \in DOMAIN positions : InEnergyWindow(positions[i])
    /\ ret[1] = << <<>>, <<>>, <<>>, <<>> >>

\* the mask of the points that pass every filter
SurvivorMask == [i \in DOMAIN positions |-> Survives(positions[i])]

\* C7: width filter.  A point contributes to the aggregates iff it passes the
\* energy (and segment) filter and |ortho| < width/2 strictly, and the bin
\* edges along the cut are built from exactly those points.
C7_WidthFilter ==
    (Cut1DDone /\ \E i \in DOMAIN positions : Survives(positions[i]))
    => /\ SumsOfCut = SumsOfPoints(SurvivorMask)
       /\ [k \in DOMAIN ret[2][1] |->
              Dot(<<ret[2][1][k][1] - 2 * QPoints[1][1],
                    ret[2][1][k][2] - 2 * QPoints[1][2]>>, segDir)]
          = [k \in DOMAIN ret[2][1] |->
              binEdges(MaskSelect([i \in DOMAIN positions |-> alongL(positions[i])],
                                  SurvivorMask), minPixel * norm(segDir))[k]]

\* cut1D with extend=True on the points selected by mask, with their weights
cut1DOfSubCloud(mask) ==
    cut1D(MaskSelect(positions, mask), MaskSelect(I, mask), MaskSelect(Norm, mask),
          MaskSelect(Monitor, mask), QPoints[1], QPoints[2],
          width, minPixel, Emin, Emax, TRUE)

\* C8 as stated: with extend=False, cut1D discards exactly the points whose
\* along-coordinate lies outside the closed interval [0, segment length], and
\* histograms the weights of the points it keeps: its aggregates and bin
\* positions are those of the extended cut through the kept points alone.
C8_ClosedSegment ==
    (Cut1DDone /\ ~extend)
    => LET kept == cut1DOfSubCloud([i \in DOMAIN positions |-> BetweenOrAt(positions[i])])
       IN  ret[1] = kept[1] /\ ret[2][1] = kept[2][1]

\* C8 amended: with extend=False, cut1D discards exactly the points whose
\* along-coordinate lies outside the open interval (0, segment length) (points
\* at 0 or at the segment length are discarded), and histograms the weights of
\* the points it keeps, in their order.
C8_OpenSegment ==
    (Cut1DDone /\ ~extend)
    => LET kept == cut1DOfSubCloud([i \in DOMAIN positions |-> StrictlyBetween(positions[i])])
       IN  ret[1] = kept[1] /\ ret[2][1] = kept[2][1]

\* C8 witness: of two points in the energy window and inside the width, the
\* first is discarded (before q1, beyond q2 or at an end of the segment) and
\* the second, between q1 and q2, is the one binned
C8_Witness ==
    /\ Cut1DDone /\ ~extend
    /\ Len(positions) = 2
    /\ \A i \in DOMAIN positions :
            InEnergyWindow(positions[i]) /\ StrictlyInsideWidth(positions[i])
    /\ AtSegmentEnd(positions[1])
    /\ StrictlyBetween(positions[2])
    /\ ret[1] = << <<I[2]>>, <<Monitor[2]>>, <<Norm[2]>>, <<1>> >>

-----------------------------------------------------------------------------
(* Properties of cutQE *)

CutQEDone == pc = "done" /\ op = "cutQE"

\* slice i, between EnergyBins[i] and EnergyBins[i+1], holds a point that
\* passes every filter of the cut
SliceHasPoint(i) ==
    \E n \in DOMAIN positions :
        /\ EnergyBins[i] <= positions[n][3] /\ positions[n][3] <= EnergyBins[i+1]
        /\ extend \/ StrictlyBetween(positions[n])
        /\ StrictlyInsideWidth(positions[n])

NonEmptySlices == {i \in 1..(Len(EnergyBins) - 1) : SliceHasPoint(i)}

\* the j-th non-empty slice, counted in the order of the energy edges
NonEmptySlice(j) ==
    CHOOSE i \in NonEmptySlices : Cardinality({m \in NonEmptySlices : m <= i}) = j

\* the cut through slice i alone
cut1DOfSlice(i) ==
    cut1D(positions, I, Norm, Monitor, QPoints[1], QPoints[2],
          width, minPixel, EnergyBins[i], EnergyBins[i+1], extend)

\* entry j of every returned list is that of the cut through slice i; its bin
\* centres are the midpoints of its bin positions and its bin distances their
\* distances from q1 (centres and distances four-fold)
EntryIsSlice(j, i) ==
    /\ <<ret[1][1][j], ret[1][2][j], ret[1][3][j], ret[1][4][j]>> = cut1DOfSlice(i)[1]
    /\ ret[2][j] = cut1DOfSlice(i)[2]
    /\ ret[2][j][3] = <<EnergyBins[i], EnergyBins[i+1]>>
    /\ Len(ret[3][j]) = Len(ret[2][j][1]) - 1
    /\ Len(ret[4][j]) = Len(ret[3][j])
    /\ \A k \in DOMAIN ret[3][j] :
           /\ ret[3][j][k] = <<ret[2][j][1][k][1] + ret[2][j][1][k+1][1],
                               ret[2][j][1][k][2] + ret[2][j][1][k+1][2],
                               ret[2][j][1][k][3] + ret[2][j][1][k+1][3]>>
           /\ ret[4][j][k] >= 0
           /\ ret[4][j][k] * ret[4][j][k]
              = Dot(<<ret[3][j][k][1] - 4 * QPoints[1][1], ret[3][j][k][2] - 4 * QPoints[1][2]>>,
                    <<ret[3][j][k][1] - 4 * QPoints[1][1], ret[3][j][k][2] - 4 * QPoints[1][2]>>)

\* C9: cutQE runs one cut1D per consecutive pair of energy edges in their
\* order and omits every slice whose cut is empty; the intensity, monitor,
\* normalization, norm-count, position, bin-centre and bin-distance lists all
\* have the length of the number of non-empty slices, entry j of each belongs
\* to the j-th non-empty slice, and the bin distance is the distance of each
\* bin centre from q1.
C9_SliceLists ==
    CutQEDone
    => /\ \A l \in 1..4 : Len(ret[1][l]) = Cardinality(NonEmptySlices)
       /\ \A l \in 2..4 : Len(ret[l]) = Cardinality(NonEmptySlices)
       /\ \A j \in 1..Cardinality(NonEmptySlices) : EntryIsSlice(j, NonEmptySlice(j))

\* C9 witness: of two slices the first is empty and omitted, so entry 1 is the
\* cut through the second slice, which has more than one bin
C9_Witness ==
    /\ CutQEDone
    /\ Len(EnergyBins) = 3
    /\ NonEmptySlices = {2}
    /\ Len(ret[2]) = 1
    /\ ret[2][1][3] = <<EnergyBins[2], EnergyBins[3]>>
    /\ Len(ret[4][1]) = 2
    /\ ret[4][1][1] < ret[4][1][2]

-----------------------------------------------------------------------------
(* Properties of DataSet.cutQELine and DataSet.plotCutQELine *)

CutQELineDone == pc = "done" /\ op \in {"cutQELine", "plotCutQELine"}

\* C10: cutQELine and plotCutQELine raise an error when fewer than 2 Q points
\* are given, before any segment is cut.
C10_TooFewQPoints ==
    (CutQELineDone /\ Len(QPoints) < 2)
    => /\ raised = "AttributeError: Number of Q points given is less than 2."
       /\ segmentCuts = <<>>
       /\ ret = <<>>

\* C10 witness: plotCutQELine on a cloud with a single Q point, in the format
\* that would otherwise be accepted
C10_Witness ==
    /\ pc = "done" /\ op = "plotCutQELine"
    /\ Len(QPoints) = 1
    /\ format = "qxqy"
    /\ positions # <<>>
    /\ raised = "AttributeError: Number of Q points given is less than 2."

\* a point passes every filter of the cut from qa to qb in the energy window
\* [emin, emax], not extended: energy in the window, 0 < along < L, and
\* |ortho| < width/2
SurvivesOn(p, qa, qb, emin, emax) ==
    LET d == <<qb[1] - qa[1], qb[2] - qa[2]>>
        r == <<p[1] - qa[1], p[2] - qa[2]>>
    IN  /\ emin <= p[3] /\ p[3] <= emax
        /\ Dot(r, d) > 0 /\ Dot(r, d) < Dot(d, d)
        /\ 4 * Dot(r, <<d[2], -d[1]>>) * Dot(r, <<d[2], -d[1]>>) < width * width * Dot(d, d)

\* slice i of segment s, from QPoints[s] to QPoints[s+1], holds a point
SegmentSliceHasPoint(s, i) ==
    \E n \in DOMAIN positions :
        SurvivesOn(positions[n], QPoints[s], QPoints[s+1], EnergyBins[i], EnergyBins[i+1])

\* the result set of segment s is completely empty: none of its slices holds a point
SegmentEmpty(s) == \A i \in 1..(Len(EnergyBins) - 1) : ~SegmentSliceHasPoint(s, i)

\* the empty segments in the order of the path
EmptySegments ==
    MaskSelect([s \in 1..(Len(QPoints) - 1) |-> s],
               [s \in 1..(Len(QPoints) - 1) |-> SegmentEmpty(s)])

\* the call got past the checks of the Q points and their format
PathAccepted == Len(QPoints) >= 2 /\ format = "qxqy"

\* what a path cut that ended at pc = "done" owes for its empty segments: one
\* error that lists, for every empty segment in order, its two waypoints and
\* the first and last energy edge, and no result
CombinedEmptyError ==
    IF EmptySegments # <<>>
    THEN /\ raised = "AttributeError: No data points found"
         /\ ret = <<>>
         /\ message = [k \in DOMAIN EmptySegments |->
                          <<QPoints[EmptySegments[k]], QPoints[EmptySegments[k] + 1],
                            EnergyBins[1], EnergyBins[Len(EnergyBins)]>>]
    ELSE raised = "none" /\ message = <<>>

SegmentSliceCount(s) ==
    Cardinality({i \in 1..(Len(EnergyBins) - 1) : SegmentSliceHasPoint(s, i)})

\* the result of segment s holds k slices in each of its lists; the Bin list
\* of a slice has three parts, and the four aggregates of a slice are as long
\* as its bin centres and bin distances, one less than its bin positions
SegmentHoldsSlices(s, k) ==
    /\ Len(ret[1][s]) = 4
    /\ \A l \in 1..4 : Len(ret[1][s][l]) = k
    /\ Len(ret[2][s]) = k /\ Len(ret[3][s]) = k /\ Len(ret[4][s]) = k
    /\ \A j \in 1..k :
           /\ Len(ret[2][s][j]) = 3
           /\ \A l \in 1..4 : Len(ret[1][s][l][j]) = Len(ret[1][s][4][j])
           /\ Len(ret[3][s][j]) = Len(ret[1][s][1][j])
           /\ Len(ret[4][s][j]) = Len(ret[1][s][1][j])
           /\ Len(ret[2][s][j][1]) = Len(ret[1][s][1][j]) + 1

CutQELineReturned == pc = "done" /\ op = "cutQELine" /\ PathAccepted

-----------------------------------------------------------------------------
(* Properties of the stitching in DataSet.plotCutQELine *)

PlotReturned == pc = "done" /\ op = "plotCutQELine" /\ raised = "none"

\* the stitched positions of the segment: the bin edges of its meshes
StitchedPositions(seg) ==
    UNION {Range(pmeshs[a].x) : a \in {b \in DOMAIN pmeshs : pmeshs[b].segID = seg}}

\* C13: stitching of a multi-segment cut.  With the offsets accumulated in
\* plotCutQELine, the largest stitched position of segment N is at most the
\* smallest stitched position of segment N+1, and the offsets are
\* non-decreasing, starting at 0.
C13_Stitching ==
    PlotReturned
    => /\ Len(offset) = Len(QPoints)
       /\ offset[1] = 0
       /\ \A k \in 1..(Len(offset) - 1) : offset[k] <= offset[k+1]
       /\ \A seg \in 1..(Len(QPoints) - 2) :
              \A x \in StitchedPositions(seg) : \A y \in StitchedPositions(seg + 1) : x <= y

\* C13 witness: two segments; the two slices of the first start at different
\* bin positions, and both segments have a positive extent on the axis
C13_Witness ==
    /\ PlotReturned
    /\ Len(QPoints) = 3
    /\ Len(pmeshs) >= 3
    /\ pmeshs[1].segID = 1 /\ pmeshs[2].segID = 1 /\ pmeshs[Len(pmeshs)].segID = 2
    /\ pmeshs[1].x[1] # pmeshs[2].x[1]
    /\ 0 < offset[2] /\ offset[2] < offset[3]
    /\ StitchedPositions(2) # {}

-----------------------------------------------------------------------------
(* Properties of cutPowder *)

\* energy slice i of cutPowder holds a point: EBinEdges[i] < energy <= EBinEdges[i+1]
PowderSliceHasPoint(i) ==
    \E n \in DOMAIN positions :
        EnergyBins[i] < positions[n][3] /\ positions[n][3] <= EnergyBins[i+1]

\* every returned list has one entry per consecutive pair of energy edges
OnePerSlice ==
    /\ Len(ret[1]) = 4
    /\ \A l \in 1..4 : Len(ret[1][l]) = Len(EnergyBins) - 1
    /\ Len(ret[2]) = Len(EnergyBins) - 1

\* C14 as stated: cutPowder returns one aggregate set and one radial-edge
\* array for every consecutive pair of energy edges, including slices that
\* contain no points, and in each slice all four aggregate arrays have length
\* len(radial edges) - 1.
C14_LengthLaw ==
    (CutPowderDone /\ EnergyBins # <<>>)
    => /\ OnePerSlice
       /\ \A i \in 1..(Len(EnergyBins) - 1) : \A l \in 1..4 :
              Len(ret[1][l][i]) = Len(ret[2][i]) - 1

\* C14 amended: cutPowder returns one aggregate set and one radial-edge array
\* for every consecutive pair of energy edges, including slices that contain
\* no points; in a slice that contains points all four aggregate arrays have
\* length len(radial edges) - 1, and in a slice without points the radial-edge
\* array and the four aggregate arrays are all empty.
C14_PerSlice ==
    (CutPowderDone /\ EnergyBins # <<>>)
    => /\ OnePerSlice
       /\ \A i \in 1..(Len(EnergyBins) - 1) : \A l \in 1..4 :
              IF PowderSliceHasPoint(i)
              THEN Len(ret[2][i]) >= 2 /\ Len(ret[1][l][i]) = Len(ret[2][i]) - 1
              ELSE ret[2][i] = <<>> /\ ret[1][l][i] = <<>>

\* C14 witness: of two slices the first holds no point and the second holds
\* two points in two radial bins
C14_Witness ==
    /\ CutPowderDone
    /\ Len(EnergyBins) = 3
    /\ ~PowderSliceHasPoint(1)
    /\ ret[2][1] = <<>>
    /\ Len(ret[2][2]) = 3
    /\ ret[1][4][2] = <<1, 1>>

-----------------------------------------------------------------------------
(* Properties of binData3D, calculateBins and calculateGrid3D.  The edges of *)
(* calculateGrid3D are twelve-fold; the edges of an axis of binData3D are    *)
(* multiplied by 12 * (number of bins - 1).                                  *)

BinData3DDone == pc = "done" /\ op = "binData3D"

BinData3DReturned == BinData3DDone /\ raised = "none"

Grid3DReturned == pc = "done" /\ op = "calculateGrid3D" /\ raised = "none"

\* the extent of the cloud along axis a
ExtentOf(a) == npmax(columnOf(positions, a)) - npmin(columnOf(positions, a))

\* n is extent/step rounded: the nearest integer, the even one of two nearest
IsRounded(extent, step, n) ==
    \/ 2 * extent - 2 * n * step < step /\ 2 * n * step - 2 * extent < step
    \/ 2 * extent - 2 * n * step = step /\ n % 2 = 0
    \/ 2 * n * step - 2 * extent = step /\ n % 2 = 0

\* the array A has the shape sh and an element for every index of the shape
HasShape(A, sh) == A.shape = sh /\ DOMAIN A.at = Box(sh)

\* C15: binData3D derives the bin count of each axis as round(extent/step)+1;
\* every aggregate histogram it returns has the shape (nx,ny,nz) and every
\* grid of corner coordinates it returns has the shape (nx+1,ny+1,nz+1).
C15_ShapeLaw ==
    BinData3DReturned
    => \E n \in (1..6) \X (1..6) \X (1..6) :
          /\ \A a \in 1..3 : IsRounded(ExtentOf(a), steps[a], n[a] - 1)
          /\ \A l \in 1..4 : HasShape(ret[1][l], n)
          /\ \A a \in 1..3 : HasShape(ret[2][a], <<n[1] + 1, n[2] + 1, n[3] + 1>>)

\* C15 witness: ranges (4,4,4) binned with the steps (2,1,1), the example
\* ranges (1,1,1) with steps (0.5,0.25,0.25) four-fold, give aggregates of the
\* shape (3,5,5)
C15_Witness ==
    /\ BinData3DReturned
    /\ steps = <<2, 1, 1>>
    /\ \A a \in 1..3 : ExtentOf(a) = 4
    /\ \A l \in 1..4 : ret[1][l].shape = <<3, 5, 5>>
    /\ \A a \in 1..3 : ret[2][a].shape = <<4, 6, 6>>

\* the edges along axis a returned by calculateGrid3D
EdgesOf(a) == HistBinsOf(ret)[a]

\* C16: calculateGrid3D converts the n centres of an axis into n+1 edges;
\* every interior edge is the midpoint of its two adjacent centres, for
\* uniform and non-uniform spacing alike, and the outermost cells are as wide
\* as their inner neighbours.
C16_Midpoints ==
    Grid3DReturned
    => \A a \in 1..3 :
          /\ Len(EdgesOf(a)) = Len(centres[a]) + 1
          /\ \A i \in 2..Len(centres[a]) :
                EdgesOf(a)[i] = 6 * (centres[a][i-1] + centres[a][i])
          /\ EdgesOf(a)[2] - EdgesOf(a)[1] = EdgesOf(a)[3] - EdgesOf(a)[2]
          /\ EdgesOf(a)[Len(centres[a]) + 1] - EdgesOf(a)[Len(centres[a])]
                 = EdgesOf(a)[Len(centres[a])] - EdgesOf(a)[Len(centres[a]) - 1]

\* C17: when the cloud collapses to a single value on an axis, binData3D does
\* not fail; the axis has one bin and its two edges are the value minus and
\* plus half the step.
C17_SingleVoxel ==
    (BinData3DDone /\ positions # <<>>)
    => \A a \in 1..3 :
          ExtentOf(a) = 0
          => /\ raised = "none"
             /\ ret[1][1].shape[a] = 1
             /\ HistBinsOf(ret[2])[a]
                   = << 12 * positions[1][a] - 6 * steps[a],
                        12 * positions[1][a] + 6 * steps[a] >>

-----------------------------------------------------------------------------
(* Properties of convexHullPoints and voronoiTessellation.  Polygons are    *)
(* doubled: the point <<x, y>> is at <<2*x, 2*y>>.                           *)

ConvexHullDone == pc = "done" /\ op = "convexHullPoints"

\* the A3 and the A4 values of the points handed to convexHullPoints
A3Values == Range(points[1][1])
A4Values == Range(points[1][2])

\* the cells of the rectangle from <<x0, y0>> to <<x1, y1>>
RectangleCells(x0, x1, y0, y1) == (x0..(x1 - 1)) \X (y0..(y1 - 1))

\* the lower and the upper end of a boundary around the values S: half the
\* first spacing below the smallest and half the last spacing above the
\* largest value; doubled
LowerEnd(S) == 2 * Min(S) - (Min(S \ {Min(S)}) - Min(S))
UpperEnd(S) == 2 * Max(S) + (Max(S) - Max(S \ {Max(S)}))

\* C18: for a rectangular raster of A3 and A4 values with at least two
\* distinct values on each axis, convexHullPoints returns the rectangle that
\* extends half the first and half the last spacing beyond the extreme values
\* on each side, and every raster point lies strictly inside it, none on its
\* edge.
C18_StrictlyInside ==
    (ConvexHullDone /\ Cardinality(A3Values) >= 2 /\ Cardinality(A4Values) >= 2)
    => /\ raised = "none"
       /\ ret = RectangleCells(LowerEnd(A3Values), UpperEnd(A3Values),
                               LowerEnd(A4Values), UpperEnd(A4Values))
       /\ \A k \in DOMAIN points[1][1] :
             /\ LowerEnd(A3Values) < 2 * points[1][1][k]
             /\ 2 * points[1][1][k] < UpperEnd(A3Values)
             /\ LowerEnd(A4Values) < 2 * points[1][2][k]
             /\ 2 * points[1][2][k] < UpperEnd(A4Values)

\* C18 witness: the raster of the A3 values 0, 1, 3 and the A4 values 1, 0
\* gets the rectangle from <<-0.5, -0.5>> to <<4, 1.5>>
C18_Witness ==
    /\ ConvexHullDone
    /\ points = <<rasterOf(<<0, 1, 3>>, <<1, 0>>)>>
    /\ raised = "none"
    /\ ret = RectangleCells(-1, 8, -1, 3)

TessDone == pc = "done" /\ op = "voronoiTessellation"

\* the points <<x, y>> of a group <<X, Y>>
GroupPoints(g) == [i \in DOMAIN g[1] |-> <<g[1][i], g[2][i]>>]

\* points holds the coordinates <<X, Y>> of all groups, not a list of groups
PointsAreFlat == Boundary # <<>> /\ numGroups = 0

\* the points handed to voronoiTessellation
GivenPoints ==
    IF PointsAreFlat THEN GroupPoints(points)
    ELSE IF Len(points) = 1 THEN GroupPoints(points[1])
    ELSE GroupPoints(points[1]) \o GroupPoints(points[2])

\* every group has a boundary: it was given, or the group has two distinct
\* values on each axis
BoundariesExist ==
    \/ Boundary # <<>>
    \/ \A i \in DOMAIN points :
          Cardinality(Range(points[i][1])) >= 2 /\ Cardinality(Range(points[i][2])) >= 2

\* the boundary of group i: given, or the rectangle around its raster
GroupBoundary(i) ==
    IF Boundary # <<>> THEN Boundary[i]
    ELSE RectangleCells(LowerEnd(Range(points[i][1])), UpperEnd(Range(points[i][1])),
                        LowerEnd(Range(points[i][2])), UpperEnd(Range(points[i][2])))

\* the union of all group boundaries
CombinedBoundary ==
    UNION {GroupBoundary(i) : i \in IF Boundary # <<>> THEN DOMAIN Boundary
                                    ELSE DOMAIN points}

\* the four cells around the point p
CellsAround(p) ==
    { <<2 * p[1] - 1, 2 * p[2] - 1>>, <<2 * p[1], 2 * p[2] - 1>>,
      <<2 * p[1] - 1, 2 * p[2]>>, <<2 * p[1], 2 * p[2]>> }

\* p lies strictly inside the combined boundary
StrictlyInsideBoundary(p) == CellsAround(p) \subseteq CombinedBoundary

\* p lies inside or on the combined boundary
InsideOrOnBoundary(p) == CellsAround(p) \cap CombinedBoundary # {}

BoundaryError ==
    /\ raised = "AttributeError"
    /\ message = <<"The provided boundary does not contain all points">>

\* C19: voronoiTessellation accepts the points exactly when every point lies
\* inside or on the combined boundary, the union of all group boundaries; if
\* a point lies outside, it raises before the Voronoi diagram is computed and
\* returns nothing.
C19_InsideOrOn ==
    (TessDone /\ BoundariesExist)
    => /\ BoundaryError
          <=> \E i \in DOMAIN GivenPoints : ~InsideOrOnBoundary(GivenPoints[i])
       /\ BoundaryError => calls = <<>> /\ ret = <<>>

\* C19 amended: voronoiTessellation accepts the points exactly when every
\* point lies strictly inside the combined boundary, the union of all group
\* boundaries; if a point lies on the boundary or outside, it raises before
\* the Voronoi diagram is computed and returns nothing.
C19_StrictlyInside ==
    (TessDone /\ BoundariesExist)
    => /\ BoundaryError
          <=> \E i \in DOMAIN GivenPoints : ~StrictlyInsideBoundary(GivenPoints[i])
       /\ BoundaryError => calls = <<>> /\ ret = <<>>
       /\ (~BoundaryError /\ GivenPoints # <<>>) => calls = <<"Voronoi">>

\* C19 witness: with two squares that share an edge as boundaries, the point
\* <<2, 1>> on the shared edge is inside the union and the point <<1, 2>> is
\* on its boundary: the call raises before the diagram is computed
C19_Witness ==
    /\ TessDone
    /\ Len(Boundary) = 2
    /\ GivenPoints = << <<2, 1>>, <<1, 2>> >>
    /\ StrictlyInsideBoundary(<<2, 1>>)
    /\ InsideOrOnBoundary(<<1, 2>>)
    /\ BoundaryError
    /\ calls = <<>>

\* C20: voronoiTessellation never returns a set of polygons whose size
\* differs from the number of points: it returns exactly one polygon for
\* every point, and none for the extra points, or it raises and returns
\* nothing; points that coincide make it raise.
C20_OnePolygonPerPoint ==
    TessDone
    => /\ raised = "none"
          => /\ Len(ret) = Len(GivenPoints)
             /\ \A i \in DOMAIN GivenPoints :
                   Cardinality({k \in DOMAIN ret : ret[k].site = GivenPoints[i]}) = 1
             /\ \A k \in DOMAIN ret : ret[k].site \in Range(GivenPoints)
       /\ raised # "none" => ret = <<>>

\* C20 witness: two rasters of four points each, apart from each other, give
\* eight polygons, listed backwards
C20_Witness ==
    /\ TessDone
    /\ Boundary = <<>>
    /\ Len(points) = 2
    /\ raised = "none"
    /\ Len(ret) = 8
    /\ ret[1].site = GivenPoints[8]

-----------------------------------------------------------------------------
(* Properties of the energy slices of cutQE and cutPowder *)

\* the norm-counts of all bins of all slices in the list NormCount, added up
TotalNormCount(NormCount) ==
    Sum([j \in DOMAIN NormCount |-> Sum(NormCount[j])])

\* C27: in cutQE every point of the cloud is aggregated in at most one energy
\* slice: a point whose energy equals an interior energy bin edge is not
\* counted in both adjacent slices, so the norm-counts of all slices together
\* never exceed the number of points of the cloud.
C27_AtMostOneSlice ==
    CutQEDone => TotalNormCount(ret[1][4]) <= Len(positions)

\* the points of the cloud with an energy between the first and the last
\* energy bin edge, both included
InEnergyRange ==
    {n \in DOMAIN positions :
        EnergyBins[1] <= positions[n][3] /\ positions[n][3] <= EnergyBins[Len(EnergyBins)]}

\* C28: in cutPowder every point of the cloud with an energy in the closed
\* range from the first to the last energy bin edge is aggregated in exactly
\* one slice: a point at the first edge is not lost and a point on an
\* interior edge is counted once, so the norm-counts of all slices together
\* are the number of points in the range.
C28_ExactlyOneSlice ==
    (CutPowderDone /\ EnergyBins # <<>>)
    => TotalNormCount(ret[1][4]) = Cardinality(InEnergyRange)

-----------------------------------------------------------------------------
(* Frame of the core operations *)

\* C25: a core operation (cut1D, cut1DE, cutQE, cutPowder, binData3D,
\* voronoiTessellation) is a pure one-shot transformation: a call leaves
\* every argument handed to it as it was, so that the call can be repeated
\* with the same arguments.
C25_ArgumentsUnchanged ==
    [][UNCHANGED <<inputs, qPoint>>]_vars

-----------------------------------------------------------------------------
(* Properties of plotA3A4 *)

PlotA3A4Done == pc = "done" /\ op = "plotA3A4"

\* files f and g differ beyond tolerance in the attribute name: Ei by more
\* than 0.05, temperature or a field by more than 0.2 or by being None in one
\* file only, binning by being unequal
Mismatch(f, g, name) ==
    LET differ(a, b, margin) ==
            \/ (a = <<>>) # (b = <<>>)
            \/ a # <<>> /\ b # <<>> /\ (a[1] - b[1] > margin \/ b[1] - a[1] > margin)
    IN  CASE name = "Ei" -> differ(f.Ei, g.Ei, 5)
          [] name = "Temperature" -> differ(f.temperature, g.temperature, 2)
          [] name = "Magnetic Field" -> differ(f.magneticField, g.magneticField, 2)
          [] name = "Electric Field" -> differ(f.electricField, g.electricField, 2)
          [] name = "Binning" -> f.binning # g.binning

AttributeNames == <<"Ei", "Temperature", "Magnetic Field", "Electric Field", "Binning">>

\* the error of mismatching files names exactly the attributes in differing,
\* and nothing is tessellated or plotted
MismatchError(differing) ==
    /\ raised = "AttributeError"
    /\ message = <<"Attributes for the datafiles are not the same! Difference is in :">>
                 \o MaskSelect(AttributeNames,
                               [t \in 1..5 |-> AttributeNames[t] \in differing])
    /\ calls = <<>>
    /\ ret = <<>>

\* C24 as stated: when any two of the files differ beyond tolerance in an
\* attribute, plotA3A4 raises an error that names exactly the attributes in
\* which some pair of files differs, and neither tessellates nor plots.
C24_AnyPair ==
    LET differing == {name \in Range(AttributeNames) :
                         \E i \in DOMAIN files : \E j \in DOMAIN files :
                             Mismatch(files[i], files[j], name)}
    IN  (PlotA3A4Done /\ differing # {}) => MismatchError(differing)

\* C24 as the code has it: every file is compared with the first file only.
\* When some file differs beyond tolerance from the first one, plotA3A4
\* raises an error that names exactly the attributes in which some file
\* differs from the first, and neither tessellates nor plots; a value that
\* is None in one of the two files and present in the other is a mismatch.
\* When no file differs from the first one, that error is not raised.
C24_FirstFile ==
    LET differing == {name \in Range(AttributeNames) :
                         \E i \in DOMAIN files : Mismatch(files[1], files[i], name)}
    IN  PlotA3A4Done =>
            IF differing # {} THEN MismatchError(differing)
            ELSE raised # "AttributeError"

\* C24 witness: the first file has a temperature, another has None and a
\* different binning; the error names both and nothing was tessellated
C24_Witness ==
    /\ PlotA3A4Done
    /\ files[1].temperature # <<>>
    /\ \E i \in DOMAIN files : files[i].temperature = <<>>
    /\ \E i \in DOMAIN files : files[i].binning # files[1].binning
    /\ raised = "AttributeError"
    /\ Len(message) = 4
    /\ calls = <<>>

\* the values of the array named field of all input points at position p
ValuesAt(p, field) ==
    MaskSelect(concatenated(files, field),
               [i \in DOMAIN PosAllOf(files) |-> PosAllOf(files)[i] = p])

\* the values of s that are not NaN
NotNaN(s) == MaskSelect(s, [i \in DOMAIN s |-> s[i] # NaN])

\* C23: in plotA3A4, for every distinct (A3,A4) position the merged intensity
\* and the merged monitor are the sums of the intensities and monitors of all
\* input points at that position, however many files overlap there, and the
\* merged normalization is the mean of their normalizations that are not NaN.
C23_MergedSums ==
    (PlotA3A4Done /\ raised = "none") =>
        \A k \in DOMAIN ret.points :
            /\ ret.Isorted[k] = Sum(ValuesAt(ret.points[k], "I"))
            /\ ret.Monsorted[k] = Sum(ValuesAt(ret.points[k], "Monitor"))
            /\ IF NotNaN(ValuesAt(ret.points[k], "Norm")) = <<>>
               THEN ret.Normsorted[k] = NaN
               ELSE ret.Normsorted[k] * Len(NotNaN(ValuesAt(ret.points[k], "Norm")))
                    = Sum(NotNaN(ValuesAt(ret.points[k], "Norm")))

SortPointsDone == pc = "done" /\ op = "sortPoints"

\* the indices of the points of X nearest to the four-fold centroid c
Nearest(c, X) ==
    LET far(k) == (c[1] - 4 * X[k][1]) * (c[1] - 4 * X[k][1])
                  + (c[2] - 4 * X[k][2]) * (c[2] - 4 * X[k][2])
    IN  {k \in DOMAIN X : \A j \in DOMAIN X : far(k) <= far(j)}

\* the source points of the matching, as pairs
SourcePoints == [k \in DOMAIN points[1] |-> <<points[1][k], points[2][k]>>]

\* C21: the matching of polygons to points in plotA3A4 assigns to each
\* polygon the source point nearest to its centroid.  When two polygons
\* claim the same source point the call raises; the call raises only when
\* two polygons can claim the same point.  Otherwise the assignment is a
\* bijection and the reordered array holds at index k the polygon assigned
\* to source point k; in plotA3A4 the polygon plotted for point k is one
\* whose centroid has point k as a nearest point.
C21_Matching ==
    /\ SortPointsDone =>
        /\ raised \in {"none", "AttributeError"}
        /\ (\E i \in DOMAIN centroids : \E j \in DOMAIN centroids :
               /\ i # j
               /\ Cardinality(Nearest(centroids[i], SourcePoints)) = 1
               /\ Nearest(centroids[i], SourcePoints) = Nearest(centroids[j], SourcePoints))
           => raised = "AttributeError"
        /\ raised = "AttributeError" =>
               /\ ret = <<>>
               /\ \E i \in DOMAIN centroids : \E j \in DOMAIN centroids :
                      /\ i # j
                      /\ Nearest(centroids[i], SourcePoints)
                         \cap Nearest(centroids[j], SourcePoints) # {}
        /\ raised = "none" =>
               /\ DOMAIN ret = DOMAIN SourcePoints
               /\ \A k \in DOMAIN ret :
                      /\ ret[k] \in DOMAIN centroids
                      /\ k \in Nearest(centroids[ret[k]], SourcePoints)
               /\ \A k \in DOMAIN ret : \A j \in DOMAIN ret : ret[k] = ret[j] => k = j
    /\ (PlotA3A4Done /\ raised = "none") =>
        /\ Len(ret.sortedPolyPoints) = Len(ret.points)
        /\ \A k \in DOMAIN ret.points :
               k \in Nearest(centeroidnp(ret.sortedPolyPoints[k]), ret.points)

\* C21 witness: two points, the centroids of their polygons listed the
\* other way round; the polygons are reordered to the order of the points
C21_Witness ==
    /\ SortPointsDone
    /\ raised = "none"
    /\ Len(ret) >= 2
    /\ ret[1] = 2 /\ ret[2] = 1

\* C22: for points without exact duplicates and a boundary built by
\* convexHullPoints, as plotA3A4 hands them to voronoiTessellation for files
\* of matching attributes, the tessellation succeeds and the interior of the
\* polygon matched to a point contains that point and no other input point.
C22_Bijection ==
    (PlotA3A4Done /\ testFiles(files) = <<>>) =>
        /\ raised = "none"
        /\ \A k \in DOMAIN ret.points : \A j \in DOMAIN ret.points :
               contains(ret.sortedPolyPoints[k].cells,
                        <<2 * ret.points[j][1], 2 * ret.points[j][2]>>)
               <=> j = k

-----------------------------------------------------------------------------
(* Properties of the corrected intensity *)

PlotCutQELineDone == pc = "done" /\ op = "plotCutQELine"

\* a cloud of as many pixels, all with normalization 1 and monitor 1
Ones == [i \in DOMAIN positions |-> 1]

\* the bin of intensity sum holds the n-th point of the cloud: the
\* intensities of the points are distinct powers of two
Holds(sum, n) == (sum \div I[n]) % 2 = 1

\* C26: the corrected intensity intensity*normCount/(monitor*normalization)
\* of a bin is computed without raising: the call raises exactly when it
\* raises for the same cloud with every normalization and monitor 1, and
\* bins, intensities and norm-counts are those of that cloud, so a NaN
\* normalization does not disturb the binning.  A bin whose monitor sum is
\* zero, whose normalization sum is zero or which holds a point with NaN
\* normalization is plotted as NaN or infinity, never as a number; every
\* other bin is plotted as the quotient.
C26_NaNPropagates ==
    /\ PlotCutQELineDone =>
        raised = plotCutQELine(positions, I, Ones, Ones, QPoints, EnergyBins,
                               width, minPixel, format).raised
    /\ (pc = "done" /\ op = "cutQELine") =>
        /\ raised = cutQELine(positions, I, Ones, Ones, QPoints, EnergyBins,
                              width, minPixel, format).raised
        /\ raised = "none" =>
            LET clean == cutQELine(positions, I, Ones, Ones, QPoints, EnergyBins,
                                   width, minPixel, format).ret
            IN  /\ ret[2] = clean[2] /\ ret[3] = clean[3] /\ ret[4] = clean[4]
                /\ \A s \in DOMAIN ret[1] :
                       ret[1][s][1] = clean[1][s][1] /\ ret[1][s][4] = clean[1][s][4]
    /\ (PlotCutQELineDone /\ raised = "none") =>
        \A m \in DOMAIN pmeshs : \A k \in DOMAIN pmeshs[m].Int :
            LET intensity == ret[1][1][1][m][k]
                monitor == ret[1][1][2][m][k]
                normalization == ret[1][1][3][m][k]
                normcount == ret[1][1][4][m][k]
                masked == \E n \in DOMAIN positions : Norm[n] = NaN /\ Holds(intensity, n)
            IN  IF monitor = 0 \/ normalization = 0 \/ masked
                THEN pmeshs[m].Int[k].kind \in {"nan", "inf"}
                ELSE /\ pmeshs[m].Int[k].kind = "finite"
                     /\ pmeshs[m].Int[k].num * monitor * normalization
                        = pmeshs[m].Int[k].den * intensity * normcount

\* C26 witness: a bin of a masked pixel is plotted as NaN and a bin without
\* monitor as infinity
C26_Witness ==
    /\ PlotCutQELineDone
    /\ raised = "none"
    /\ \E n \in DOMAIN Norm : Norm[n] = NaN
    /\ \E m \in DOMAIN pmeshs : \E k \in DOMAIN pmeshs[m].Int :
           /\ pmeshs[m].Int[k].kind = "nan"
           /\ ret[1][1][3][m][k] = NaN
    /\ \E m \in DOMAIN pmeshs : \E k \in DOMAIN pmeshs[m].Int :
           /\ pmeshs[m].Int[k].kind = "inf"
           /\ ret[1][1][2][m][k] = 0

-----------------------------------------------------------------------------
(* DataSet: the lists of raw and of converted data files *)

\* the longest list of files handed to a setter or to convertDataFile
MaxArgs == 2

\* data files: raw ('hdf') and converted ('nxs'), of two samples
DataFiles ==
    { [name |-> "a", type |-> "hdf", sample |-> 1],
      [name |-> "b", type |-> "hdf", sample |-> 1],
      [name |-> "a", type |-> "nxs", sample |-> 1],
      [name |-> "c", type |-> "hdf", sample |-> 2] }

\* the binnings of convertDataFile: the normalization file has a table for 8
\* and none for 100
Binnings == {8, 100}

\* isListOfDataFiles(inputFiles) of a list of DataFile objects: the list, or
\* an error when a file is not of the sample of the first file
isListOfDataFiles(inputFiles) ==
    IF Len(inputFiles) > 1
       /\ \E i \in DOMAIN inputFiles : inputFiles[i].sample # inputFiles[1].sample
    THEN [raised |-> "AttributeError", ret |-> <<>>]
    ELSE [raised |-> "none", ret |-> inputFiles]

\* the files of the given type, in order
ofType(list, type) == MaskSelect(list, [i \in DOMAIN list |-> list[i].type = type])

\* the setters of dataFiles and of convertedFiles: the 'hdf' files of the
\* checked list are appended to _dataFiles, the 'nxs' files to _convertedFiles
setFiles(self, list) ==
    IF isListOfDataFiles(list).raised # "none"
    THEN [raised |-> isListOfDataFiles(list).raised, self |-> self]
    ELSE [raised |-> "none",
          self |-> [dataFiles |-> self.dataFiles \o ofType(list, "hdf"),
                    convertedFiles |-> self.convertedFiles \o ofType(list, "nxs")]]

\* DataSet(dataFiles=given[1], convertedFiles=given[2]), <<>> for None and
\* <<list>> for a list: the lists start empty and each given list is assigned
construct(given) ==
    LET empty == [dataFiles |-> <<>>, convertedFiles |-> <<>>]
        first == IF given[1] = <<>> THEN [raised |-> "none", self |-> empty]
                 ELSE setFiles(empty, given[1][1])
    IN  IF first.raised # "none" \/ given[2] = <<>> THEN first
        ELSE setFiles(first.self, given[2][1])

\* rawfile.convert(binning): the converted file of a raw file
convert(rawfile) == [name |-> rawfile.name, type |-> "nxs", sample |-> rawfile.sample]

\* convertDataFile(dataFiles=given,binning=binning): a given list is checked
\* and then replaced by self.dataFiles; every raw file is converted, which
\* fails without a normalization table; the converted files are assigned to
\* convertedFiles
convertDataFile(self, given, binning) ==
    IF given = <<>> /\ Len(self.dataFiles) = 0
    THEN [raised |-> "AttributeError", self |-> self]
    ELSE IF given # <<>> /\ isListOfDataFiles(given[1]).raised # "none"
    THEN [raised |-> "AttributeError", self |-> self]
    ELSE IF binning # 8 /\ Len(self.dataFiles) > 0
    THEN [raised |-> "AttributeError", self |-> self]
    ELSE setFiles(self, [i \in DOMAIN self.dataFiles |-> convert(self.dataFiles[i])])

\* an argument that is None or a list of files
Given == {<<>>} \cup {<<list>> : list \in SeqUpTo(DataFiles, MaxArgs)}

\* the data sets that can be constructed
InitData ==
    /\ \E given \in Given \X Given :
           /\ construct(given).raised = "none"
           /\ dataset = construct(given).self
    /\ NoCloud /\ NoCut /\ NoBin /\ NoGrid /\ NoVoronoi /\ NoFiles
    /\ qPoint = <<>> /\ viewer = <<>> /\ NoCall

\* the outcome of a method of the data set is stored; no list grows beyond
\* MaxFiles + 1 files
changes(outcome, method) ==
    /\ Len(outcome.self.dataFiles) <= MaxFiles + 1
    /\ Len(outcome.self.convertedFiles) <= MaxFiles + 1
    /\ dataset' = outcome.self
    /\ raised' = outcome.raised
    /\ op' = method /\ pc' = "done"
    /\ UNCHANGED <<inputs, qPoint, viewer, ret, message, segmentCuts, offset,
                   pmeshs, calls>>

\* dataset.dataFiles = list
setDataFiles ==
    /\ dataset # <<>>
    /\ \E list \in SeqUpTo(DataFiles, MaxArgs) : changes(setFiles(dataset, list), "dataFiles")

\* dataset.convertedFiles = list
setConvertedFiles ==
    /\ dataset # <<>>
    /\ \E list \in SeqUpTo(DataFiles, MaxArgs) :
           changes(setFiles(dataset, list), "convertedFiles")

convertDataFileCall ==
    /\ dataset # <<>>
    /\ \E given \in Given : \E binning \in Binnings :
           changes(convertDataFile(dataset, given, binning), "convertDataFile")

NextData == setDataFiles \/ setConvertedFiles \/ convertDataFileCall

SpecData == InitData /\ [][NextData]_vars

\* C29: the raw list of a data set holds only 'hdf' files and its converted
\* list only 'nxs' files, and after a successful convertDataFile the
\* converted list holds exactly one converted file for every raw file, the
\* converted files of the raw files in their order; repeating the conversion
\* does not add them again.
C29_FileLists ==
    dataset # <<>> =>
        /\ \A i \in DOMAIN dataset.dataFiles : dataset.dataFiles[i].type = "hdf"
        /\ \A i \in DOMAIN dataset.convertedFiles : dataset.convertedFiles[i].type = "nxs"
        /\ (op = "convertDataFile" /\ raised = "none") =>
               dataset.convertedFiles
               = [i \in DOMAIN dataset.dataFiles |-> convert(dataset.dataFiles[i])]

-----------------------------------------------------------------------------
(* Viewer3D: the slider and the displayed slice *)

\* the largest extent of the data along an axis
MaxShape == 3

\* Data.shape
Shapes == (1..MaxShape) \X (1..MaxShape) \X (1..MaxShape)

\* a Python number: twice its value, so that halves are numbers too, and
\* whether it is a float or an int; an int is no half
int(n) == [twice |-> 2 * n, float |-> FALSE]

\* the floats a slider can be set to when its valmax is upperLim: from one
\* below valmin = 0 to one above valmax, in halves
Floats(upperLim) == [twice : (-2)..(2 * upperLim + 2), float : {TRUE}]

\* int(np.round(val)) as a number: a half is rounded to the even neighbour
round(val) ==
    IF val.twice % 2 = 0 THEN val.twice \div 2
    ELSE IF ((val.twice - 1) \div 2) % 2 = 0 THEN (val.twice - 1) \div 2
    ELSE (val.twice + 1) \div 2

\* val + 1 and val - 1 keep the type of val
plus(val, n) == [twice |-> val.twice + 2 * n, float |-> val.float]

\* plot(): the slice self.value is drawn; a float is no index
plot(self) ==
    [shape |-> self.shape, axis |-> self.axis, value |-> self.value,
     Energy_slider |-> self.Energy_slider,
     plot |-> IF self.value.float THEN "IndexError" ELSE "drawn"]

\* Slider.set_val(val) with the callback sliders_on_changed(self,val): the
\* slider takes val; a rounded value beyond a limit sets the slider to the
\* limit; a value within the limits that differs from val sets the slider to
\* the value, and one that equals val is stored, as val, and plotted
RECURSIVE set_val(_, _)
sliders_on_changed(self, val) ==
    LET value == round(val)
        valmax == self.Energy_slider.valmax
        valmin == self.Energy_slider.valmin
        limited == IF value > valmax THEN set_val(self, int(valmax))
                   ELSE IF value < valmin THEN set_val(self, int(valmin))
                   ELSE self
    IN  IF value <= valmax /\ value >= valmin
        THEN IF 2 * value # val.twice
             THEN set_val(limited, int(value))
             ELSE plot([shape |-> limited.shape, axis |-> limited.axis,
                        value |-> val, Energy_slider |-> limited.Energy_slider,
                        plot |-> limited.plot])
        ELSE limited

set_val(self, val) ==
    sliders_on_changed([shape |-> self.shape, axis |-> self.axis,
                        value |-> self.value,
                        Energy_slider |-> [val |-> val,
                                           valmin |-> self.Energy_slider.valmin,
                                           valmax |-> self.Energy_slider.valmax],
                        plot |-> self.plot], val)

\* setAxis(axis) and the new Slider of reloadslider or __init__: the limits
\* are 0 and Data.shape[axis]-1, the slider starts at zeroPoint
newSlider(self, axis, zeroPoint) ==
    [shape |-> self.shape, axis |-> axis, value |-> int(0),
     Energy_slider |-> [val |-> int(zeroPoint), valmin |-> 0,
                        valmax |-> self.shape[axis + 1] - 1],
     plot |-> self.plot]

\* reloadslider(self,axis): the old slider is set to 0, then replaced
reloadslider(self, axis, zeroPoint) ==
    newSlider(set_val(self, int(0)), axis, zeroPoint)

\* increaseAxis and decreaseAxis
increaseAxis(self) == set_val(self, plus(self.Energy_slider.val, 1))
decreaseAxis(self) == set_val(self, plus(self.Energy_slider.val, -1))

\* the keys of onkeypress
Keys == {"+", "up", "-", "down", "0", "1", "2", "x"}

\* the axis a key selects
axisOf(key) == CASE key = "0" -> 0 [] key = "1" -> 1 [] key = "2" -> 2

\* onkeypress(event,self): zeroPoint is the bin nearest to 0 along the new
\* axis
onkeypress(self, key, zeroPoint) ==
    IF key \in {"+", "up"} THEN increaseAxis(self)
    ELSE IF key \in {"-", "down"} THEN decreaseAxis(self)
    ELSE IF key \in {"0", "1", "2"} /\ self.axis # axisOf(key)
    THEN plot(set_val(reloadslider(self, axisOf(key), zeroPoint), int(0)))
    ELSE self

\* onscroll(event,self)
onscroll(self, button) ==
    IF button = "up" THEN increaseAxis(self)
    ELSE IF button = "down" THEN decreaseAxis(self)
    ELSE self

\* Viewer3D(Data,bins,axis) for data of the given shape
Viewer3D(shape, axis, zeroPoint) ==
    set_val(newSlider([shape |-> shape, axis |-> axis, value |-> int(0),
                       Energy_slider |-> <<>>, plot |-> "drawn"], axis, zeroPoint),
            int(0))

InitViewer ==
    /\ \E shape \in Shapes : \E axis \in 0..2 : \E zeroPoint \in 0..(shape[axis + 1] - 1) :
           viewer = Viewer3D(shape, axis, zeroPoint)
    /\ NoCloud /\ NoCut /\ NoBin /\ NoGrid /\ NoVoronoi /\ NoFiles
    /\ qPoint = <<>> /\ dataset = <<>> /\ NoCall

\* an event is handled
handles(self, event) ==
    /\ viewer' = self
    /\ op' = event /\ pc' = "done"
    /\ UNCHANGED <<inputs, qPoint, dataset, ret, raised, message, segmentCuts,
                   offset, pmeshs, calls>>

keyPress ==
    /\ viewer # <<>>
    /\ \E key \in Keys : \E zeroPoint \in 0..(MaxShape - 1) :
           /\ key \in {"0", "1", "2"} => zeroPoint <= viewer.shape[axisOf(key) + 1] - 1
           /\ key \notin {"0", "1", "2"} => zeroPoint = 0
           /\ handles(onkeypress(viewer, key, zeroPoint), "onkeypress")

scroll ==
    /\ viewer # <<>>
    /\ \E button \in {"up", "down"} : handles(onscroll(viewer, button), "onscroll")

\* the slider is moved to any float
sliderChange ==
    /\ viewer # <<>>
    /\ \E val \in Floats(viewer.Energy_slider.valmax) :
           handles(set_val(viewer, val), "set_val")

NextViewer == keyPress \/ scroll \/ sliderChange

SpecViewer == InitViewer /\ [][NextViewer]_vars

\* C30: after any sequence of key-press, scroll, slider-change and
\* axis-switch events the displayed slice index value of a Viewer3D is an
\* integer within [0, Data.shape[axis]-1] for the selected axis, and the
\* slice drawn by plot() exists: a slider value out of range was clamped to
\* the nearest limit and one that is no integer was rounded.
C30_ValueIsSliceIndex ==
    viewer # <<>> =>
        /\ ~viewer.value.float
        /\ viewer.value.twice % 2 = 0
        /\ 0 <= viewer.value.twice
        /\ viewer.value.twice <= 2 * (viewer.shape[viewer.axis + 1] - 1)
        /\ viewer.plot = "drawn"

=============================================================================
